---------------------------- MODULE Spec2Model ----------------------------
(***************************************************************************)
(* Session protocol controller of the flamawings Bedrock bot.              *)
(*                                                                         *)
(* Several implementations of the controller live in the repository and   *)
(* are modelled here:                                                      *)
(*   - the single-file console client (src/unnamed/part_001): global       *)
(*     variables, one handler per transport event, timers;                 *)
(*   - the modular client: StateMachine (src/src/proxy-manager.js),        *)
(*     BedrockClient.js, CommandHandler.js, GUIHandler                     *)
(*     (src/unnamed/part_003) wired by the entry point                     *)
(*     (src/unnamed/part_002);                                             *)
(*   - the connection life cycle of the multi-bot console client           *)
(*     (src/src/old.js).                                                   *)
(*                                                                         *)
(* Every handler is one atomic action (node runs a callback to its end).   *)
(* A handler is written as an operator from the record of globals to the   *)
(* record of globals, so that nested calls compose as in the source.       *)
(***************************************************************************)
EXTENDS Integers, Sequences, FiniteSets, TLC

(***************************************************************************)
(* Bounds of the model.                                                    *)
(***************************************************************************)
\* pending 600 ms settle timers (onMaybeReady arms one per call)
MaxSettle == 2
\* command_request packets a session sends by hand before the model stops typing
MaxCommands == 1
\* reconnect attempts counted
MaxAttempt == 1
\* clients that are no longer referenced by `client` but still emit events
MaxOrphans == 1
\* reconnect attempts counted when the Reconnection Supervisor runs on its own
MaxBackoff == 7

(***************************************************************************)
(* Values.                                                                 *)
(***************************************************************************)
\* JS null / undefined where a number is expected
Null == -1000
\* an array hole or a missing item (undefined)
Hole == -1
\* network_id of the empty item (EMPTY_ITEM)
EMPTY_ITEM == 0
\* network_id of some real item
SomeItem == 7
\* a value that is not an Array (null)
NoArray == <<Null>>

TARGET_SLOT_INDEX == 16
PLAYER_INVENTORY_WINDOW_ID == 0
\* pendingReconnectDelayMs after an "already online" kick
AlreadyOnlineDelayMs == 30000
RECONNECT_BASE_MS == 2000
RECONNECT_MAX_MS == 60000
\* Math.max(250, ...) of scheduleReconnect
WaitFloorMs == 250
\* Math.floor(Math.random() * 500): the least and the greatest jitter
Jitters == { 0, 499 }

Min(a, b) == IF a <= b THEN a ELSE b
Max(a, b) == IF a >= b THEN a ELSE b
RECURSIVE Pow2(_)
\* Math.pow(2, n)
Pow2(n) == IF n <= 0 THEN 1 ELSE 2 * Pow2(n - 1)

IsArray(a) == a /= NoArray
\* a[i] of a JS array (0-based), undefined outside it
At(a, i) == IF IsArray(a) /\ i >= 0 /\ i + 1 <= Len(a) THEN a[i + 1] ELSE Hole
\* a[i] = v on a JS array: grows the array, leaving holes
SetAt(a, i, v) ==
    LET n == IF Len(a) > i + 1 THEN Len(a) ELSE i + 1
    IN  [k \in 1..n |-> IF k = i + 1 THEN v ELSE IF k <= Len(a) THEN a[k] ELSE Hole]
\* an array of n slots holding SomeItem exactly at the 0-based indices in S
Slots(n, S) == [k \in 1..n |-> IF (k - 1) \in S THEN SomeItem ELSE EMPTY_ITEM]

Inv36Vacant == Slots(36, 1..35)
Inv36Full   == Slots(36, 0..35)
Ui27        == Slots(27, {TARGET_SLOT_INDEX})
Ui27Blank   == Slots(27, {})

(***************************************************************************)
(* Window ids as they arrive (number, bigint, string) and normalizeWindowId *)
(***************************************************************************)
NumId(n)  == [t |-> "number", n |-> n, s |-> ""]
BigId(n)  == [t |-> "bigint", n |-> n, s |-> ""]
StrId(s)  == [t |-> "string", n |-> 0, s |-> s]
UndefId   == [t |-> "undefined", n |-> 0, s |-> ""]

\* Number(s) for the strings the model sends; every other string is NaN
NumericStrings == [s \in {"0", "5"} |-> IF s = "0" THEN 0 ELSE 5]

WINDOW_ID_NAME_TO_NUM ==
    [s \in {"inventory", "first", "last", "offhand", "armor", "creative",
            "hotbar", "fixed_inventory", "ui", "none", "drop_contents",
            "beacon", "trading_output", "trading_use_inputs",
            "trading_input_2", "trading_input_1", "enchant_output",
            "enchant_material", "enchant_input", "anvil_output",
            "anvil_result", "anvil_material", "container_input",
            "crafting_use_ingredient", "crafting_result",
            "crafting_remove_ingredient", "crafting_add_ingredient"} |->
       CASE s = "inventory" -> 0 [] s = "first" -> 1 [] s = "last" -> 100
         [] s = "offhand" -> 119 [] s = "armor" -> 120 [] s = "creative" -> 121
         [] s = "hotbar" -> 122 [] s = "fixed_inventory" -> 123 [] s = "ui" -> 124
         [] s = "none" -> -1 [] s = "drop_contents" -> -100 [] s = "beacon" -> -24
         [] s = "trading_output" -> -23 [] s = "trading_use_inputs" -> -22
         [] s = "trading_input_2" -> -21 [] s = "trading_input_1" -> -20
         [] s = "enchant_output" -> -17 [] s = "enchant_material" -> -16
         [] s = "enchant_input" -> -15 [] s = "anvil_output" -> -13
         [] s = "anvil_result" -> -12 [] s = "anvil_material" -> -11
         [] s = "container_input" -> -10 [] s = "crafting_use_ingredient" -> -5
         [] s = "crafting_result" -> -4 [] s = "crafting_remove_ingredient" -> -3
         [] OTHER -> -2]

\* a string that is neither numeric nor a known name stays a string; the model
\* keeps it apart from every number with this code
UnmappedString == 1000

normalizeWindowId(w) ==
    CASE w.t = "number" -> w.n
      [] w.t = "bigint" -> w.n
      [] w.t = "string" ->
            IF w.s \in DOMAIN NumericStrings THEN NumericStrings[w.s]
            ELSE IF w.s \in DOMAIN WINDOW_ID_NAME_TO_NUM
                 THEN WINDOW_ID_NAME_TO_NUM[w.s]
                 ELSE UnmappedString
      [] OTHER -> Null

isPlayerInventoryWindowId(id) == id \in {0, 1, 2, 119, 120}

isEmptyItem(item) == item = Hole \/ item = EMPTY_ITEM

\* variant of findFirstEmptyPlayerSlot that scans from the last index down
findLastEmptyPlayerSlot(items) ==
    IF ~IsArray(items) THEN Null
    ELSE LET vac == {i \in 0..(Len(items) - 1) : isEmptyItem(At(items, i))}
         IN  IF vac = {} THEN Null
             ELSE CHOOSE i \in vac : \A j \in vac : i >= j

\* lowest vacant index of the player snapshot, Null when unknown or full
findFirstEmptyPlayerSlot(items) ==
    IF ~IsArray(items) THEN Null
    ELSE LET vac == {i \in 0..(Len(items) - 1) : isEmptyItem(At(items, i))}
         IN  IF vac = {} THEN Null
             ELSE CHOOSE i \in vac : \A j \in vac : i <= j

(***************************************************************************)
(* Container Inference Engine: isUiLikeContainerSnapshot                    *)
(***************************************************************************)
\* a missing container_id / dynamic_container_id
NoHint == "undefined"
InventoryLike == {"inventory", "hotbar", "hotbar_and_inventory", "offhand", "armor"}

\* the classifier with the hint rules tried before the size rule
isUiLikeHintsFirst(containerId, dynamicId, size) ==
    IF containerId /= NoHint /\ containerId \notin InventoryLike THEN TRUE
    ELSE IF dynamicId /= Null THEN TRUE
    ELSE IF size = 36 THEN FALSE
    ELSE IF size > 0 /\ size /= 36 THEN TRUE
    ELSE FALSE

\* the classifier without the dynamic_container_id rule
isUiLikeNoDynamicRule(containerId, dynamicId, size) ==
    IF size = 36 THEN FALSE
    ELSE IF containerId /= NoHint /\ containerId \notin InventoryLike THEN TRUE
    ELSE IF size > 0 /\ size /= 36 THEN TRUE
    ELSE FALSE

isUiLikeContainerSnapshot(containerId, dynamicId, size) ==
    IF size = 36 THEN FALSE
    ELSE IF containerId /= NoHint /\ containerId \notin InventoryLike THEN TRUE
    ELSE IF dynamicId /= Null THEN TRUE
    ELSE IF size > 0 /\ size /= 36 THEN TRUE
    ELSE FALSE


(***************************************************************************)
(* State of the console client (src/unnamed/part_001).                     *)
(***************************************************************************)
VARIABLES
    state,                          \* FSM state
    client,                         \* "none" | "open" | "closing" (close() called, close event due)
    orphans,                        \* clients dropped from `client` that still emit events
    availableCommandsSeen,
    inventoryReady,
    inventoryReadyFallbackTimer,    \* "none" | "armed" | "spent" (handle kept after it fired)
    currentWindowId,
    currentWindowType,
    currentWindowItems,
    playerInventoryItems,
    clickSent,
    commandSent,
    autoCommandSent,
    commandSentCount,
    desiredTakeSlotIndex,
    containerItemsDumpedForWindow,
    lastUiCandidateSignature,
    wantConnected,
    reconnectTimer,                 \* the handle of a reconnect timeout is held
    reconnectTimeouts,              \* timeouts armed by scheduleReconnect and still due
    reconnectAttempt,
    pendingReconnectDelayMs,
    settleTimers,                   \* pending 600 ms callbacks of onMaybeReady
    crashed,                        \* an uncaught exception ended the process
    transport                       \* history of what client.queue accepted

\* history: what the console user asked for last ("none", "connect", "disconnect")
VARIABLES requested

(***************************************************************************)
(* State of the multi-bot console client (src/src/old.js), for one bot     *)
(* name of its roster.                                                     *)
(***************************************************************************)
VARIABLES
    botState,                       \* botClients.get(username), or no entry
    strayClients,                   \* clients no entry refers to: still open / close() called
    fleetTimers                     \* pending setTimeout(connectBot) callbacks

fleetVars == <<botState, strayClients, fleetTimers>>

(***************************************************************************)
(* Functions applied on their own: the argument last passed and the value  *)
(* returned. The slots GUIHandler keeps and what it wrote.                 *)
(***************************************************************************)
VARIABLES
    snapshot,                       \* argument of isUiLikeContainerSnapshot
    verdict,                        \* its return value
    clickArgs,                      \* player snapshot, window, slot and item of a click
    tx,                             \* the transaction built for them
    containerSlots,                 \* GUIHandler.containerData.slots
    written                         \* history: content of each slot GUIHandler clicked

classifyVars == <<snapshot, verdict>>
buildVars == <<clickArgs, tx>>
guiVars == <<containerSlots, written>>
pureVars == <<classifyVars, buildVars, guiVars>>

(***************************************************************************)
(* State of the modular client (StateMachine, BedrockClient, the entry     *)
(* point BedrockAFKClient, CommandHandler, GUIHandler).                    *)
(***************************************************************************)
VARIABLES
    smState,                        \* StateMachine.state
    stateData,                      \* StateMachine.stateData
    bedrockClient,                  \* BedrockClient: client, loginTimeout, readyFallbackTimer
    connected,                      \* BedrockAFKClient.connected (handlers exist iff TRUE)
    connectPending,                 \* the promise of BedrockClient.connect() is unsettled
    containerData,                  \* GUIHandler.containerData
    commandTimers,                  \* pending 500 ms callbacks of CommandHandler.sendCommand
    guiTimers,                      \* pending 500 ms click and 5 s assume-success callbacks
    inbox                           \* history: readiness signals received on the client

monoVars == <<state, client, orphans, availableCommandsSeen, inventoryReady,
              inventoryReadyFallbackTimer, currentWindowId, currentWindowType,
              currentWindowItems, playerInventoryItems, clickSent, commandSent,
              autoCommandSent, commandSentCount, desiredTakeSlotIndex,
              containerItemsDumpedForWindow, lastUiCandidateSignature,
              wantConnected, reconnectTimer, reconnectTimeouts, reconnectAttempt,
              pendingReconnectDelayMs, settleTimers, crashed, transport>>

modVars == <<smState, stateData, bedrockClient, connected, connectPending,
             containerData, commandTimers, guiTimers, inbox>>

(***************************************************************************)
(* State of the node server (src/src/node-server-firebase.js and its       *)
(* earlier edition src/unnamed/part_004), for one bot id. Every client    *)
(* ever created has a number; the entry that startBot stores with client c *)
(* is entry c.                                                             *)
(***************************************************************************)
VARIABLES
    edition,                        \* which of the two editions runs, "none" before the launch
    botClients,                     \* botClients.get(bot_id): an entry, or 0 for none
    bots,                           \* per client: its status and the flags of its entry
    born,                           \* clients created so far
    starts,                         \* startBot calls suspended before createClient
    stops,                          \* stopBot calls suspended at their await, by entry
    nodeTimers,                     \* pending 5 s callbacks of reconnectBot
    wanted                          \* the last command carried out: "start" or "stop"

nodeVars == <<edition, botClients, bots, born, starts, stops, nodeTimers, wanted>>

vars == <<monoVars, modVars, requested, fleetVars, pureVars, nodeVars>>

\* the editions of the node server
Editions == {"part_004", "node-server-firebase"}
\* clients one run creates for the bot id
MaxClients == 3
\* a client not created yet; its entry as startBot stores it
Unborn == [status |-> "unborn", connected |-> FALSE, manuallyStopped |-> FALSE,
           reconnecting |-> FALSE]
FreshEntry == [status |-> "open", connected |-> FALSE, manuallyStopped |-> FALSE,
               reconnecting |-> FALSE]

\* nothing classified yet
NoSnapshot == [containerId |-> NoHint, dynamicId |-> Null, size |-> Null]

\* nothing clicked yet
NoClick == [items |-> NoArray, windowId |-> Null, slotIndex |-> Null, item |-> Hole]
NoTransaction == [legacy_request_id |-> 0, transaction_type |-> "none", actions |-> <<>>]

\* no window_type known
NoType == "null"
\* lastUiCandidateSignature = null
NoSig == "null"
\* scripted: scripted command_requests queued on the current client;
\* txFor: window of the inventory_transaction queued since the tracked window
\* was set and the last command went out; txSeq: parity of all
\* inventory_transactions queued
FreshTransport == [scripted |-> 0, txSeq |-> 0, txFor |-> Null]

\* window ids of the modular client, which compares them raw (===)
NullId == [t |-> "null", n |-> 0, s |-> ""]
\* !windowId
Falsy(w) ==
    \/ w.t \in {"null", "undefined"}
    \/ w.t \in {"number", "bigint"} /\ w.n = 0
    \/ w.t = "string" /\ w.s = ""

\* StateMachine.stateData after the constructor and after reset()
FreshStateData == [commandsAvailable |-> FALSE, inventoryReady |-> FALSE, windowId |-> NullId]
\* BedrockClient's fields after the constructor; readyFallbackTimer is
\* "null", "armed" or "stale" (cleared with clearTimeout, handle kept)
FreshBedrockClient == [client |-> "null", loginTimeout |-> FALSE, readyFallbackTimer |-> "null"]
\* GUIHandler.containerData after the constructor and resetContainerData()
FreshContainerData == [windowId |-> NullId, received |-> FALSE]

\* botClients has no entry for the name
NoBot == [present |-> FALSE, client |-> "null", connected |-> FALSE,
          pingInterval |-> FALSE, autoReconnectEnabled |-> FALSE,
          reconnecting |-> FALSE]
\* the botState connectBot stores; client is "null", "open" or "closed" (the
\* connection ended and the entry still refers to the object)
FreshBot == [present |-> TRUE, client |-> "open", connected |-> FALSE,
             pingInterval |-> FALSE, autoReconnectEnabled |-> FALSE,
             reconnecting |-> FALSE]

\* the globals as one record
G == [state |-> state, client |-> client, orphans |-> orphans,
      availableCommandsSeen |-> availableCommandsSeen,
      inventoryReady |-> inventoryReady,
      inventoryReadyFallbackTimer |-> inventoryReadyFallbackTimer,
      currentWindowId |-> currentWindowId,
      currentWindowType |-> currentWindowType,
      currentWindowItems |-> currentWindowItems,
      playerInventoryItems |-> playerInventoryItems,
      clickSent |-> clickSent, commandSent |-> commandSent,
      autoCommandSent |-> autoCommandSent,
      commandSentCount |-> commandSentCount,
      desiredTakeSlotIndex |-> desiredTakeSlotIndex,
      containerItemsDumpedForWindow |-> containerItemsDumpedForWindow,
      lastUiCandidateSignature |-> lastUiCandidateSignature,
      wantConnected |-> wantConnected, reconnectTimer |-> reconnectTimer,
      reconnectTimeouts |-> reconnectTimeouts,
      reconnectAttempt |-> reconnectAttempt,
      pendingReconnectDelayMs |-> pendingReconnectDelayMs,
      settleTimers |-> settleTimers, crashed |-> crashed,
      transport |-> transport]

\* the globals after a handler
Assign(g) ==
    /\ state' = g.state
    /\ client' = g.client
    /\ orphans' = g.orphans
    /\ availableCommandsSeen' = g.availableCommandsSeen
    /\ inventoryReady' = g.inventoryReady
    /\ inventoryReadyFallbackTimer' = g.inventoryReadyFallbackTimer
    /\ currentWindowId' = g.currentWindowId
    /\ currentWindowType' = g.currentWindowType
    /\ currentWindowItems' = g.currentWindowItems
    /\ playerInventoryItems' = g.playerInventoryItems
    /\ clickSent' = g.clickSent
    /\ commandSent' = g.commandSent
    /\ autoCommandSent' = g.autoCommandSent
    /\ commandSentCount' = g.commandSentCount
    /\ desiredTakeSlotIndex' = g.desiredTakeSlotIndex
    /\ containerItemsDumpedForWindow' = g.containerItemsDumpedForWindow
    /\ lastUiCandidateSignature' = g.lastUiCandidateSignature
    /\ wantConnected' = g.wantConnected
    /\ reconnectTimer' = g.reconnectTimer
    /\ reconnectTimeouts' = g.reconnectTimeouts
    /\ reconnectAttempt' = g.reconnectAttempt
    /\ pendingReconnectDelayMs' = g.pendingReconnectDelayMs
    /\ settleTimers' = g.settleTimers
    /\ crashed' = g.crashed
    /\ transport' = g.transport

\* a handler ran: the modular client and the user's last request stay
Commit(g) == Assign(g) /\ UNCHANGED <<modVars, requested, fleetVars, pureVars, nodeVars>>

Init ==
    /\ state = "CONNECTING"
    /\ client = "none"
    /\ orphans = [open |-> 0, closing |-> 0]
    /\ availableCommandsSeen = FALSE
    /\ inventoryReady = FALSE
    /\ inventoryReadyFallbackTimer = "none"
    /\ currentWindowId = Null
    /\ currentWindowType = NoType
    /\ currentWindowItems = NoArray
    /\ playerInventoryItems = NoArray
    /\ clickSent = FALSE
    /\ commandSent = FALSE
    /\ autoCommandSent = FALSE
    /\ commandSentCount = 0
    /\ desiredTakeSlotIndex = TARGET_SLOT_INDEX
    /\ containerItemsDumpedForWindow = Null
    /\ lastUiCandidateSignature = NoSig
    /\ wantConnected = FALSE
    /\ reconnectTimer = FALSE
    /\ reconnectTimeouts = <<>>
    /\ reconnectAttempt = 0
    /\ pendingReconnectDelayMs = Null
    /\ settleTimers = 0
    /\ crashed = FALSE
    /\ transport = FreshTransport
    /\ requested = "none"
    /\ snapshot = NoSnapshot
    /\ verdict = FALSE
    /\ clickArgs = NoClick
    /\ tx = NoTransaction
    /\ containerSlots = <<>>
    /\ written = {}
    /\ botState = NoBot
    /\ strayClients = [open |-> 0, closing |-> 0]
    /\ fleetTimers = 0
    /\ smState = "DISCONNECTED"
    /\ stateData = FreshStateData
    /\ bedrockClient = FreshBedrockClient
    /\ connected = FALSE
    /\ connectPending = FALSE
    /\ containerData = FreshContainerData
    /\ commandTimers = 0
    /\ guiTimers = [click |-> 0, assume |-> 0]
    /\ inbox = {}
    /\ edition = "none"
    /\ botClients = 0
    /\ bots = [c \in 1..MaxClients |-> Unborn]
    /\ born = 0
    /\ starts = [user |-> 0, timer |-> 0]
    /\ stops = {}
    /\ nodeTimers = 0
    /\ wanted = "none"

(***************************************************************************)
(* Functions of the console client.                                        *)
(***************************************************************************)
setState(g, next) == [g EXCEPT !.state = next]

\* send(): throws without a client (nothing catches it: the process ends);
\* otherwise client.queue either accepts the packet (ok) or throws (caught)
SendThrows(g) == g.client = "none"

\* variant of sendCommand that keeps the window state of the earlier flow
sendCommandKeepsWindow(g, ok, scripted) ==
    IF SendThrows(g) THEN [g EXCEPT !.crashed = TRUE]
    ELSE IF ~ok THEN g
    ELSE [g EXCEPT !.commandSent = TRUE,
                   !.commandSentCount = @ + 1,
                   !.state = "WAIT_UI",
                   !.transport = [@ EXCEPT
                        !.scripted = IF scripted THEN @ + 1 ELSE @,
                        !.txFor = Null]]

\* sendCommand(commandLine); `scripted` tells the 600 ms callback from the console
sendCommand(g, ok, scripted) ==
    LET c == [g EXCEPT !.currentWindowId = Null,
                       !.currentWindowType = NoType,
                       !.currentWindowItems = NoArray,
                       !.containerItemsDumpedForWindow = Null,
                       !.lastUiCandidateSignature = NoSig,
                       !.clickSent = FALSE]
    IN  IF SendThrows(c) THEN [c EXCEPT !.crashed = TRUE]
        ELSE IF ~ok THEN c
        ELSE [c EXCEPT !.commandSent = TRUE,
                       !.commandSentCount = @ + 1,
                       !.state = "WAIT_UI",
                       !.transport = [@ EXCEPT
                            !.scripted = IF scripted THEN @ + 1 ELSE @,
                            !.txFor = Null]]

canSendCommands(g) == g.client /= "none" /\ g.availableCommandsSeen

\* variant of onMaybeReady that does not wait for the command catalog
onMaybeReadyInventoryOnly(g) ==
    LET a == IF /\ g.inventoryReady
                /\ g.state \notin {"READY", "WAIT_UI", "COMMAND_SENT"}
             THEN setState(g, "READY")
             ELSE g
    IN  IF a.state = "READY" /\ ~a.commandSent
        THEN [a EXCEPT !.settleTimers = @ + 1]
        ELSE a

onMaybeReady(g) ==
    LET a == IF /\ g.availableCommandsSeen
                /\ g.inventoryReady
                /\ g.state \notin {"READY", "WAIT_UI", "COMMAND_SENT"}
             THEN setState(g, "READY")
             ELSE g
    IN  IF a.state = "READY" /\ ~a.commandSent
        THEN [a EXCEPT !.settleTimers = @ + 1]
        ELSE a

markInventoryReady(g) ==
    IF g.inventoryReady THEN g
    ELSE LET a == [g EXCEPT !.inventoryReady = TRUE,
                            !.inventoryReadyFallbackTimer = "none"]
             b == IF a.state = "WAIT_INVENTORY_READY" THEN setState(a, "READY") ELSE a
         IN  onMaybeReady(b)

armInventoryReadyFallback(g) ==
    IF g.inventoryReady \/ g.inventoryReadyFallbackTimer /= "none" THEN g
    ELSE [g EXCEPT !.inventoryReadyFallbackTimer = "armed"]

\* one entry of Transaction.actions
Action(inventoryId, slot, oldItem, newItem) ==
    [source_type |-> "container", inventory_id |-> inventoryId, slot |-> slot,
     old_item |-> oldItem, new_item |-> newItem]

buildNormalClickTransaction(windowId, slotIndex, item) ==
    [legacy_request_id |-> 0, transaction_type |-> "normal",
     actions |-> <<Action(windowId, slotIndex, item, item)>>]

\* variant of buildMoveToInventoryTransaction that adds the item to the
\* source window
buildMoveWithinWindow(windowId, fromSlot, toSlot, item) ==
    [legacy_request_id |-> 0, transaction_type |-> "normal",
     actions |-> <<Action(windowId, fromSlot, item, EMPTY_ITEM),
                   Action(windowId, toSlot, EMPTY_ITEM, item)>>]

buildMoveToInventoryTransaction(windowId, fromSlot, toSlot, item) ==
    [legacy_request_id |-> 0, transaction_type |-> "normal",
     actions |-> <<Action(windowId, fromSlot, item, EMPTY_ITEM),
                   Action(PLAYER_INVENTORY_WINDOW_ID, toSlot, EMPTY_ITEM, item)>>]

\* the tx that clickSlot sends for a non-empty item, given the player snapshot
clickTransaction(items, windowId, slotIndex, item) ==
    LET destSlot == findFirstEmptyPlayerSlot(items)
    IN  IF destSlot /= Null
        THEN buildMoveToInventoryTransaction(windowId, slotIndex, destSlot, item)
        ELSE buildNormalClickTransaction(windowId, slotIndex, item)

\* variant of clickSlot without the clickSent latch
clickSlotUnlatched(g, windowId, slotIndex, ok) ==
    IF g.state /= "WAIT_CONTAINER_CONTENT" THEN g
    ELSE IF ~IsArray(g.currentWindowItems) THEN g
    ELSE IF g.currentWindowId = Null \/ windowId /= g.currentWindowId THEN g
    ELSE IF slotIndex = Null \/ slotIndex < 0 THEN g
    ELSE IF isEmptyItem(At(g.currentWindowItems, slotIndex)) THEN g
    ELSE IF SendThrows(g) THEN [g EXCEPT !.crashed = TRUE]
    ELSE IF ~ok THEN g
    ELSE [g EXCEPT !.clickSent = TRUE,
                   !.state = "CLICK_SENT",
                   !.transport = [@ EXCEPT !.txSeq = 1 - @, !.txFor = windowId]]

clickSlot(g, windowId, slotIndex, ok) ==
    IF g.clickSent THEN g
    ELSE IF g.state /= "WAIT_CONTAINER_CONTENT" THEN g
    ELSE IF ~IsArray(g.currentWindowItems) THEN g
    ELSE IF g.currentWindowId = Null \/ windowId /= g.currentWindowId THEN g
    ELSE IF slotIndex = Null \/ slotIndex < 0 THEN g
    ELSE IF isEmptyItem(At(g.currentWindowItems, slotIndex)) THEN g
    ELSE IF SendThrows(g) THEN [g EXCEPT !.crashed = TRUE]
    ELSE IF ~ok THEN g
    ELSE [g EXCEPT !.clickSent = TRUE,
                   !.state = "CLICK_SENT",
                   !.transport = [@ EXCEPT !.txSeq = 1 - @, !.txFor = windowId]]

maybeTakeDesiredSlot(g, ok) ==
    IF g.currentWindowId = Null THEN g
    ELSE IF g.desiredTakeSlotIndex = Null \/ g.desiredTakeSlotIndex < 0 THEN g
    ELSE IF ~IsArray(g.currentWindowItems) THEN g
    ELSE IF g.desiredTakeSlotIndex >= Len(g.currentWindowItems) THEN g
    ELSE clickSlot(setState(g, "WAIT_CONTAINER_CONTENT"),
                   g.currentWindowId, g.desiredTakeSlotIndex, ok)

tryTakeFromOpenContainer(g, slotIndex, ok) ==
    IF g.currentWindowId = Null THEN g
    ELSE IF slotIndex = Null \/ slotIndex < 0 THEN g
    ELSE IF IsArray(g.currentWindowItems)
         THEN clickSlot([setState(g, "WAIT_CONTAINER_CONTENT") EXCEPT !.clickSent = FALSE],
                        g.currentWindowId, slotIndex, ok)
         ELSE setState(g, "WAIT_CONTAINER_CONTENT")

(***************************************************************************)
(* Transport events of the console client: one operator per handler.       *)
(***************************************************************************)
ContentPacket(w, cid, dyn, input) ==
    [window_id |-> w, container_id |-> cid, dynamic_container_id |-> dyn, input |-> input]
SlotPacket(w, slot, item) == [window_id |-> w, slot |-> slot, item |-> item]

\* the candidate signature logged while WAIT_UI; only its presence is kept
\* (the string is compared with the previous one to log once, nothing else)
Signature(p) == "sig"

\* variant of inferContainer that follows the classifier alone
inferContainerForeignOnly(g, windowId, looksUi) ==
    IF g.state = "WAIT_UI" /\ g.currentWindowId = Null /\ looksUi
    THEN [g EXCEPT !.currentWindowId = windowId,
                   !.currentWindowType = NoType,
                   !.currentWindowItems = NoArray,
                   !.clickSent = FALSE,
                   !.containerItemsDumpedForWindow = Null,
                   !.state = "WAIT_CONTAINER_CONTENT",
                   !.transport = [@ EXCEPT !.txFor = Null]]
    ELSE g

\* the inference step of the inventory_content handler
inferContainer(g, windowId, looksUi) ==
    IF /\ g.state = "WAIT_UI"
       /\ g.currentWindowId = Null
       /\ (~isPlayerInventoryWindowId(windowId) \/ looksUi)
    THEN [g EXCEPT !.currentWindowId = windowId,
                   !.currentWindowType = NoType,
                   !.currentWindowItems = NoArray,
                   !.clickSent = FALSE,
                   !.containerItemsDumpedForWindow = Null,
                   !.state = "WAIT_CONTAINER_CONTENT",
                   !.transport = [@ EXCEPT !.txFor = Null]]
    ELSE g

\* client.on("inventory_content")
onInventoryContent(g, p, ok) ==
    LET windowId == normalizeWindowId(p.window_id)
        size == Len(p.input)
        g1 == IF g.state = "WAIT_UI"
              THEN [g EXCEPT !.lastUiCandidateSignature = Signature(p)]
              ELSE g
        g2 == inferContainer(g1, windowId,
                  isUiLikeContainerSnapshot(p.container_id, p.dynamic_container_id, size))
        g3 == IF ~g2.inventoryReady /\ isPlayerInventoryWindowId(windowId)
              THEN markInventoryReady(g2)
              ELSE g2
        g4 == IF windowId = PLAYER_INVENTORY_WINDOW_ID
              THEN [g3 EXCEPT !.playerInventoryItems = p.input]
              ELSE g3
    IN  IF windowId = Null THEN g
        ELSE IF g4.currentWindowId /= Null /\ windowId = g4.currentWindowId
        THEN LET g5 == [g4 EXCEPT !.currentWindowItems = p.input,
                                  !.containerItemsDumpedForWindow = g4.currentWindowId]
                 g6 == IF g5.state \in {"CONTAINER_OPENED", "WAIT_UI"}
                       THEN setState(g5, "WAIT_CONTAINER_CONTENT")
                       ELSE g5
             IN  maybeTakeDesiredSlot(g6, ok)
        ELSE g4

\* client.on("inventory_slot")
onInventorySlot(g, p, ok) ==
    LET windowId == normalizeWindowId(p.window_id)
        g1 == IF ~g.inventoryReady /\ windowId = 0 THEN markInventoryReady(g) ELSE g
        g2 == IF windowId = PLAYER_INVENTORY_WINDOW_ID /\ p.slot /= Null
              THEN [g1 EXCEPT !.playerInventoryItems =
                        SetAt(IF IsArray(@) THEN @ ELSE <<>>, p.slot, p.item)]
              ELSE g1
        g3 == IF g2.currentWindowId /= Null /\ windowId = g2.currentWindowId /\ p.slot /= Null
              THEN LET a == [g2 EXCEPT !.currentWindowItems =
                                 SetAt(IF IsArray(@) THEN @ ELSE <<>>, p.slot, p.item)]
                   IN  IF /\ a.state = "WAIT_CONTAINER_CONTENT"
                          /\ ~a.clickSent
                          /\ p.slot = a.desiredTakeSlotIndex
                       THEN maybeTakeDesiredSlot(a, ok)
                       ELSE a
              ELSE g2
    IN  IF windowId = Null THEN g
        ELSE IF g3.state = "WAIT_INVENTORY_READY" /\ ~g3.inventoryReady
        THEN armInventoryReadyFallback(g3)
        ELSE g3

\* client.on("container_open")
onContainerOpen(g, w) ==
    [g EXCEPT !.currentWindowId = normalizeWindowId(w),
              !.currentWindowType = "container",
              !.currentWindowItems = NoArray,
              !.clickSent = FALSE,
              !.containerItemsDumpedForWindow = Null,
              !.lastUiCandidateSignature = NoSig,
              !.state = "WAIT_CONTAINER_CONTENT",
              !.transport = [@ EXCEPT !.txFor = Null]]

\* variant of onContainerClose that completes from any state
onContainerCloseAnyState(g, w) ==
    LET closedId == normalizeWindowId(w)
    IN  IF closedId /= Null /\ closedId = g.currentWindowId
        THEN [g EXCEPT !.currentWindowId = Null,
                       !.currentWindowType = NoType,
                       !.currentWindowItems = NoArray,
                       !.containerItemsDumpedForWindow = Null,
                       !.lastUiCandidateSignature = NoSig,
                       !.state = "DONE"]
        ELSE g

\* client.on("container_close"); undefined !== null, so a missing id closes nothing
onContainerClose(g, w) ==
    LET closedId == normalizeWindowId(w)
    IN  IF closedId /= Null /\ closedId = g.currentWindowId
        THEN [g EXCEPT !.currentWindowId = Null,
                       !.currentWindowType = NoType,
                       !.currentWindowItems = NoArray,
                       !.containerItemsDumpedForWindow = Null,
                       !.lastUiCandidateSignature = NoSig,
                       !.state = IF @ = "CLICK_SENT" THEN "DONE" ELSE @]
        ELSE g

\* client.on("spawn")
onSpawn(g) == onMaybeReady(setState(g, "WAIT_AVAILABLE_COMMANDS"))

\* client.on("start_game")
onStartGame(g) == IF ~g.inventoryReady THEN markInventoryReady(g) ELSE g

\* client.on("available_commands")
onAvailableCommands(g) ==
    LET a == [g EXCEPT !.availableCommandsSeen = TRUE]
        b == IF a.state = "WAIT_AVAILABLE_COMMANDS"
             THEN armInventoryReadyFallback(setState(a, "WAIT_INVENTORY_READY"))
             ELSE a
    IN  onMaybeReady(b)

\* variant of settleCallback without the autoCommandSent latch
settleCallbackUnlatched(g, ok) ==
    LET t == [g EXCEPT !.settleTimers = @ - 1]
    IN  IF t.state /= "READY" THEN t
        ELSE [sendCommand(t, ok, TRUE) EXCEPT !.autoCommandSent = TRUE]

\* the 600 ms callback armed by onMaybeReady
settleCallback(g, ok) ==
    LET t == [g EXCEPT !.settleTimers = @ - 1]
    IN  IF t.state /= "READY" \/ t.autoCommandSent THEN t
        ELSE [sendCommand(t, ok, TRUE) EXCEPT !.autoCommandSent = TRUE]

\* the 15 s callback armed by armInventoryReadyFallback
fallbackCallback(g) ==
    IF g.inventoryReady
    THEN [g EXCEPT !.inventoryReadyFallbackTimer = "spent"]
    ELSE markInventoryReady([g EXCEPT !.inventoryReadyFallbackTimer = "spent"])

(***************************************************************************)
(* Connection life cycle and Reconnection Supervisor.                      *)
(***************************************************************************)
\* clearTimeout cancels the timeout the handle names: the one armed last
clearReconnectTimer(g) ==
    IF g.reconnectTimer
    THEN [g EXCEPT !.reconnectTimer = FALSE,
                   !.reconnectTimeouts = SubSeq(@, 1, Len(@) - 1)]
    ELSE g

\* variant of reconnectBase without the cap
reconnectBaseUncapped(attempt) == RECONNECT_BASE_MS * Pow2(Min(attempt, 6))

\* `base` of scheduleReconnect
reconnectBase(attempt) ==
    Min(RECONNECT_MAX_MS, RECONNECT_BASE_MS * Pow2(Min(attempt, 6)))

\* `wait` of scheduleReconnect; delayMs = Null stands for undefined
reconnectWait(attempt, delayMs, jitter) ==
    Max(WaitFloorMs, (IF delayMs = Null THEN reconnectBase(attempt) ELSE delayMs) + jitter)

\* setTimeout(..., wait): the timeout with the locals it was armed from
armTimeout(g, delayMs, jitter) ==
    [g EXCEPT !.reconnectTimer = TRUE,
              !.reconnectTimeouts =
                  Append(@, [attempt |-> g.reconnectAttempt,
                             base |-> reconnectBase(g.reconnectAttempt),
                             delayMs |-> delayMs,
                             jitter |-> jitter,
                             wait |-> reconnectWait(g.reconnectAttempt, delayMs, jitter)])]

\* variant of scheduleReconnect without the "already scheduled" return
scheduleReconnectAgain(g, delayMs, jitter) ==
    IF ~g.wantConnected THEN g
    ELSE IF g.client /= "none" THEN g
    ELSE armTimeout(g, delayMs, jitter)

scheduleReconnect(g, delayMs, jitter) ==
    IF ~g.wantConnected THEN g
    ELSE IF g.client /= "none" THEN g
    ELSE IF g.reconnectTimer THEN g
    ELSE armTimeout(g, delayMs, jitter)

\* variant of connectServer that leaves a pending reconnect timer alone
connectServerKeepsTimer(g) ==
    IF g.client /= "none" THEN g
    ELSE [g EXCEPT !.wantConnected = TRUE,
                   !.client = "open",
                   !.state = "WAIT_SPAWN",
                   !.transport = [FreshTransport EXCEPT !.txSeq = g.transport.txSeq]]

connectServer(g) ==
    IF g.client /= "none" THEN g
    ELSE [clearReconnectTimer(g) EXCEPT !.wantConnected = TRUE,
                                        !.client = "open",
                                        !.state = "WAIT_SPAWN",
                                        !.transport = [FreshTransport EXCEPT
                                                          !.txSeq = g.transport.txSeq]]

\* the callback of the reconnect timeout that is due first
reconnectCallback(g) ==
    connectServer([g EXCEPT !.reconnectTimer = FALSE,
                            !.reconnectTimeouts = Tail(@),
                            !.reconnectAttempt = @ + 1])

\* client.close(): the close event follows later
closeClient(g) == IF g.client = "open" THEN [g EXCEPT !.client = "closing"] ELSE g

\* `client = undefined`: the object lives on until its close event
dropClient(g) ==
    CASE g.client = "open" ->
            [g EXCEPT !.client = "none", !.orphans = [@ EXCEPT !.open = @ + 1]]
      [] g.client = "closing" ->
            [g EXCEPT !.client = "none", !.orphans = [@ EXCEPT !.closing = @ + 1]]
      [] OTHER -> g

disconnectServer(g) ==
    IF g.client = "none" THEN g
    ELSE closeClient(clearReconnectTimer([g EXCEPT !.wantConnected = FALSE]))

\* client.on("close"), run for the close event of `from`:
\* "client" (the one `client` holds), "open" or "closing" (an orphan)
onClose(g, from, jitter) ==
    LET gone == CASE from = "client" -> [g EXCEPT !.client = "none"]
                  [] from = "open" ->
                        dropClient([g EXCEPT !.orphans = [@ EXCEPT !.open = @ - 1]])
                  [] OTHER ->
                        dropClient([g EXCEPT !.orphans = [@ EXCEPT !.closing = @ - 1]])
        r == [gone EXCEPT !.availableCommandsSeen = FALSE,
                          !.inventoryReady = FALSE,
                          !.currentWindowId = Null,
                          !.currentWindowType = NoType,
                          !.currentWindowItems = NoArray,
                          !.playerInventoryItems = NoArray,
                          !.clickSent = FALSE,
                          !.commandSent = FALSE,
                          !.autoCommandSent = FALSE,
                          !.commandSentCount = 0,
                          !.containerItemsDumpedForWindow = Null,
                          !.pendingReconnectDelayMs = Null,
                          !.state = "CONNECTING"]
    IN  scheduleReconnect(r, g.pendingReconnectDelayMs, jitter)

\* client.on("kick")
onKick(g, alreadyOnline) ==
    LET a == IF alreadyOnline
             THEN [g EXCEPT !.pendingReconnectDelayMs = AlreadyOnlineDelayMs]
             ELSE g
    IN  setState(closeClient(a), "CONNECTING")

\* client.on("error"): "benign" (Read error / Invalid tag), "timeout"
\* (connect timed out) or "other"
onError(g, kind, jitter) ==
    IF kind = "timeout"
    THEN LET a == setState(dropClient(closeClient(g)), "CONNECTING")
         IN  [scheduleReconnect(a, g.pendingReconnectDelayMs, jitter)
                 EXCEPT !.pendingReconnectDelayMs = Null]
    ELSE g

(***************************************************************************)
(* What the server and the console user may send.                          *)
(***************************************************************************)
\* player snapshot; the scenario's hint-less 27-slot UI of window 5; the same
\* window by string with the target slot vacant; a UI delivered under window 0;
\* a 36-slot snapshot of a window that is not the player's; a packet without id
ContentPackets ==
    { ContentPacket(NumId(0), NoHint, Null, Inv36Vacant),
      ContentPacket(NumId(5), NoHint, Null, Ui27),
      ContentPacket(StrId("5"), NoHint, Null, Ui27Blank),
      ContentPacket(NumId(0), "container", Null, Ui27),
      ContentPacket(NumId(5), NoHint, Null, Inv36Full),
      ContentPacket(UndefId, NoHint, Null, Ui27) }

SlotPackets ==
    { SlotPacket(NumId(0), 0, SomeItem),
      SlotPacket(NumId(5), TARGET_SLOT_INDEX, SomeItem),
      SlotPacket(BigId(5), TARGET_SLOT_INDEX, EMPTY_ITEM) }

\* String.prototype.toLowerCase on the letters the messages use
toLowerCase(msg) ==
    [i \in DOMAIN msg |->
        CASE msg[i] = "A" -> "a" [] msg[i] = "L" -> "l" [] msg[i] = "R" -> "r"
          [] msg[i] = "E" -> "e" [] msg[i] = "D" -> "d" [] msg[i] = "Y" -> "y"
          [] msg[i] = "O" -> "o" [] msg[i] = "N" -> "n" [] msg[i] = "I" -> "i"
          [] msg[i] = "B" -> "b"
          [] OTHER -> msg[i]]
\* String.prototype.includes
includes(hay, needle) ==
    \E i \in 0..(Len(hay) - Len(needle)) : SubSeq(hay, i + 1, i + Len(needle)) = needle
AlreadyOnlineText ==
    <<"a", "l", "r", "e", "a", "d", "y", " ", "o", "n", "l", "i", "n", "e">>
\* variant of saysAlreadyOnline that compares the message as it came
saysAlreadyOnlineExact(msg) == includes(msg, AlreadyOnlineText)
\* msg.toLowerCase().includes("already online") of the kick handler
saysAlreadyOnline(msg) == includes(toLowerCase(msg), AlreadyOnlineText)
\* reason.message of a kick: the phrase in lower case, in mixed case inside a
\* sentence, another reason, no message
KickReasons ==
    { AlreadyOnlineText,
      <<"!", " ", "A", "l", "r", "e", "a", "d", "y", " ", "O", "N", "L", "I", "N", "E", ".">>,
      <<"B", "a", "n", "n", "e", "d">>,
      <<>> }

OpenIds  == { NumId(5), StrId("5") }
CloseIds == { NumId(5), StrId("5"), NumId(0), NumId(6), UndefId }
SlotChoices == { TARGET_SLOT_INDEX }

\* some live client emits packets
Alive == client = "open" \/ orphans.open > 0

\* a handler's result, kept within the bounds of the model
Do(g) ==
    /\ ~crashed
    /\ g.settleTimers <= MaxSettle
    /\ g.orphans.open + g.orphans.closing <= MaxOrphans
    /\ Commit(g)

(***************************************************************************)
(* Actions of the console client.                                          *)
(***************************************************************************)
InventoryContent ==
    /\ Alive
    /\ \E p \in ContentPackets, ok \in BOOLEAN : Do(onInventoryContent(G, p, ok))

InventorySlot ==
    /\ Alive
    /\ \E p \in SlotPackets, ok \in BOOLEAN : Do(onInventorySlot(G, p, ok))

ContainerOpen == Alive /\ \E w \in OpenIds : Do(onContainerOpen(G, w))

ContainerClose == Alive /\ \E w \in CloseIds : Do(onContainerClose(G, w))

Spawn == Alive /\ Do(onSpawn(G))

StartGame == Alive /\ Do(onStartGame(G))

AvailableCommands == Alive /\ Do(onAvailableCommands(G))

SettleTimer == settleTimers > 0 /\ \E ok \in BOOLEAN : Do(settleCallback(G, ok))

FallbackTimer == inventoryReadyFallbackTimer = "armed" /\ Do(fallbackCallback(G))

ReconnectTimer ==
    /\ reconnectTimeouts /= <<>>
    /\ reconnectAttempt < MaxAttempt
    /\ Do(reconnectCallback(G))

\* the close event of the client that `client` holds
Close == client /= "none" /\ \E jitter \in Jitters : Do(onClose(G, "client", jitter))

\* the close event of a client that `client` no longer holds
OrphanClose ==
    \E from \in {"open", "closing"}, jitter \in Jitters :
        orphans[from] > 0 /\ Do(onClose(G, from, jitter))

Kick == Alive /\ \E reason \in KickReasons : Do(onKick(G, saysAlreadyOnline(reason)))

ConnectTimeout == Alive /\ \E jitter \in Jitters : Do(onError(G, "timeout", jitter))

\* console: connect
UserConnect == ~crashed /\ Do(connectServer(G))

\* console: disconnect, exit, quit
UserDisconnect == ~crashed /\ Do(disconnectServer(G))

\* console: take [n]
UserTake ==
    /\ ~crashed
    /\ \E n \in SlotChoices, ok \in BOOLEAN :
          Do(tryTakeFromOpenContainer([G EXCEPT !.desiredTakeSlotIndex = n], n, ok))

\* the manual send of cmd / tpa
manualCommand(g, ok) == IF canSendCommands(g) THEN sendCommand(g, ok, FALSE) ELSE g

\* console: cmd <...>, tpa [player], tpa <player> slot <n>
UserCommand ==
    /\ commandSentCount < MaxCommands
    /\ \E n \in SlotChoices \cup {desiredTakeSlotIndex}, ok \in BOOLEAN :
          Do(manualCommand([G EXCEPT !.desiredTakeSlotIndex = n], ok))

(***************************************************************************)
(* Spec: one session of the console client. The user connects, disconnects *)
(* and types commands, the server sends packets in any order and closes    *)
(* or kicks at any time, timers fire at any time. Every client gets its    *)
(* close event before the next one is created (no connect timeout).        *)
(***************************************************************************)
Next ==
    \/ InventoryContent
    \/ InventorySlot
    \/ ContainerOpen
    \/ ContainerClose
    \/ Spawn
    \/ StartGame
    \/ AvailableCommands
    \/ SettleTimer
    \/ FallbackTimer
    \/ ReconnectTimer
    \/ Close
    \/ Kick
    \/ UserConnect
    \/ UserDisconnect
    \/ UserTake
    \/ UserCommand

Spec == Init /\ [][Next]_vars

(***************************************************************************)
(* The modular client. ClientState and StateMachine                        *)
(* (src/src/proxy-manager.js).                                             *)
(***************************************************************************)
\* bounds: pending 500 ms timers of CommandHandler.sendCommand
MaxCommandTimers == 2

ClientState ==
    {"DISCONNECTED", "CONNECTING", "AUTHENTICATING", "RESOURCE_PACKS", "SPAWNING",
     "WAITING_COMMANDS", "WAIT_INVENTORY_READY", "READY", "COMMAND_SENT",
     "WAITING_GUI", "GUI_RECEIVED", "CLICKING_SLOT", "COMPLETED", "ERROR"}

\* _buildTransitions()
transitions ==
    [s \in ClientState |->
        CASE s = "DISCONNECTED"         -> {"CONNECTING"}
          [] s = "CONNECTING"           -> {"AUTHENTICATING", "ERROR"}
          [] s = "AUTHENTICATING"       -> {"RESOURCE_PACKS", "SPAWNING", "ERROR"}
          [] s = "RESOURCE_PACKS"       -> {"SPAWNING", "ERROR"}
          [] s = "SPAWNING"             -> {"WAITING_COMMANDS", "WAIT_INVENTORY_READY",
                                            "READY", "ERROR"}
          [] s = "WAITING_COMMANDS"     -> {"READY", "ERROR"}
          [] s = "WAIT_INVENTORY_READY" -> {"READY", "ERROR"}
          [] s = "READY"                -> {"COMMAND_SENT", "ERROR"}
          [] s = "COMMAND_SENT"         -> {"READY", "WAITING_GUI", "ERROR"}
          [] s = "WAITING_GUI"          -> {"GUI_RECEIVED", "READY", "ERROR"}
          [] s = "GUI_RECEIVED"         -> {"CLICKING_SLOT", "ERROR"}
          [] s = "CLICKING_SLOT"        -> {"COMPLETED", "ERROR"}
          [] OTHER                      -> {}]

\* the objects of the modular client as one record
M == [state |-> smState, stateData |-> stateData, bedrockClient |-> bedrockClient,
      connected |-> connected, connectPending |-> connectPending,
      containerData |-> containerData, commandTimers |-> commandTimers,
      guiTimers |-> guiTimers, inbox |-> inbox]

\* the objects after a handler
AssignM(m) ==
    /\ smState' = m.state
    /\ stateData' = m.stateData
    /\ bedrockClient' = m.bedrockClient
    /\ connected' = m.connected
    /\ connectPending' = m.connectPending
    /\ containerData' = m.containerData
    /\ commandTimers' = m.commandTimers
    /\ guiTimers' = m.guiTimers
    /\ inbox' = m.inbox

CommitM(m) == AssignM(m) /\ UNCHANGED <<monoVars, requested, fleetVars, pureVars, nodeVars>>

canTransition(m, newState) == newState \in transitions[m.state]

\* variant of transition that does not consult the table
transitionUnchecked(m, newState) == [m EXCEPT !.state = newState]

transition(m, newState) ==
    IF ~canTransition(m, newState) THEN m ELSE [m EXCEPT !.state = newState]

isReady(m) == m.state = "READY"

canSendCommand(m) ==
    /\ m.state = "READY"
    /\ m.stateData.commandsAvailable
    /\ m.stateData.inventoryReady

checkReadyState(m) ==
    IF /\ m.state \in {"WAITING_COMMANDS", "SPAWNING", "WAIT_INVENTORY_READY"}
       /\ m.stateData.commandsAvailable
       /\ m.stateData.inventoryReady
    THEN transition(m, "READY")
    ELSE m

setCommandsAvailable(m, available) ==
    checkReadyState([m EXCEPT !.stateData.commandsAvailable = available])

setInventoryReady(m, ready) ==
    checkReadyState([m EXCEPT !.stateData.inventoryReady = ready])

\* containerType is stored next to windowId and read by nothing
setContainerData(m, windowId) == [m EXCEPT !.stateData.windowId = windowId]

reset(m) == [m EXCEPT !.state = "DISCONNECTED", !.stateData = FreshStateData]

(***************************************************************************)
(* BedrockClient (src/src/BedrockClient.js).                               *)
(***************************************************************************)
\* packet.window_id === 0 || packet.window_id === '0'
IsWindowZero(w) == w = NumId(0) \/ w = StrId("0")

armReadyFallback(m) ==
    IF m.bedrockClient.readyFallbackTimer /= "null" THEN m
    ELSE [m EXCEPT !.bedrockClient.readyFallbackTimer = "armed"]

\* BedrockClient.connect() up to the promise it returns
BedrockClient_connect(m) ==
    [transition(m, "CONNECTING") EXCEPT
        !.bedrockClient.client = "open",
        !.bedrockClient.loginTimeout = TRUE,
        !.inbox = {}]

BedrockClient_disconnect(m) ==
    reset([m EXCEPT
        !.bedrockClient.loginTimeout = FALSE,
        !.bedrockClient.readyFallbackTimer = IF @ = "armed" THEN "stale" ELSE @,
        !.bedrockClient.client = "null"])

\* the 60 s login timeout
loginTimeoutCallback(m) ==
    LET t == [m EXCEPT !.bedrockClient.loginTimeout = FALSE]
    IN  IF t.state /= "READY"
        THEN BedrockClient_disconnect(transition(t, "ERROR"))
        ELSE t

\* the 15 s callback armed by armReadyFallback
readyFallbackCallback(m) ==
    LET a == IF ~m.stateData.commandsAvailable \/ ~m.stateData.inventoryReady
             THEN setInventoryReady(setCommandsAvailable(m, TRUE), TRUE)
             ELSE m
    IN  [a EXCEPT !.bedrockClient.readyFallbackTimer = "null"]

\* client.on('play_status')
onPlayStatus(m, status) ==
    IF status = "login_success" THEN transition(m, "AUTHENTICATING") ELSE m

\* client.on('resource_pack_stack')
onResourcePackStack(m) == transition(m, "RESOURCE_PACKS")

\* client.on('start_game') of BedrockClient
BedrockClient_onStartGame(m) ==
    LET a == transition(m, "SPAWNING")
        b == IF ~a.stateData.inventoryReady THEN setInventoryReady(a, TRUE) ELSE a
        c == armReadyFallback(b)
    IN  IF c.state = "SPAWNING" THEN transition(c, "WAITING_COMMANDS") ELSE c

\* client.on('inventory_content') of BedrockClient
BedrockClient_onInventoryContent(m, w) ==
    IF IsWindowZero(w) THEN setInventoryReady(m, TRUE) ELSE m

\* client.on('inventory_slot') of BedrockClient
BedrockClient_onInventorySlot(m, w) ==
    IF IsWindowZero(w) /\ ~m.stateData.inventoryReady THEN setInventoryReady(m, TRUE) ELSE m

\* client.once('spawn') of connect(), then the rest of BedrockAFKClient.connect():
\* new CommandHandler, new GUIHandler, setupHandlers()
onSpawnOnce(m) ==
    LET a == [m EXCEPT !.bedrockClient.loginTimeout = FALSE]
    IN  IF ~a.connectPending THEN a
        ELSE [a EXCEPT !.connectPending = FALSE,
                       !.connected = TRUE,
                       !.containerData = FreshContainerData]

\* client.once('error', reject) of connect() and client.on('error'):
\* the first error of a client rejects the pending promise, benign or not
BedrockClient_onError(m, benign) ==
    LET a == [m EXCEPT !.connectPending = FALSE]
    IN  IF benign THEN a ELSE transition(a, "ERROR")

\* client.on('kick')
BedrockClient_onKick(m) == transition(m, "ERROR")

(***************************************************************************)
(* CommandHandler (src/src/CommandHandler.js), GUIHandler                  *)
(* (src/unnamed/part_003), BedrockAFKClient (src/unnamed/part_002).        *)
(***************************************************************************)
CommandHandler_sendCommand(m) ==
    IF ~canSendCommand(m) THEN m
    ELSE [transition(m, "COMMAND_SENT") EXCEPT !.commandTimers = @ + 1]

\* the 500 ms callback of CommandHandler.sendCommand
commandCallback(m) ==
    LET t == [m EXCEPT !.commandTimers = @ - 1]
    IN  IF t.state = "COMMAND_SENT" THEN transition(t, "READY") ELSE t

\* client.on('container_open') of GUIHandler
GUIHandler_onContainerOpen(m, w) ==
    IF m.state \in {"COMMAND_SENT", "READY", "WAITING_GUI"}
    THEN transition(setContainerData([m EXCEPT !.containerData.windowId = w], w),
                    "GUI_RECEIVED")
    ELSE m

\* client.on('inventory_content') of GUIHandler
GUIHandler_onInventoryContent(m, w) ==
    IF w = m.containerData.windowId
    THEN LET a == [m EXCEPT !.containerData.received = TRUE]
         IN  IF a.state = "GUI_RECEIVED"
             THEN [a EXCEPT !.guiTimers.click = @ + 1]
             ELSE a
    ELSE m

\* client.on('container_close') of GUIHandler
GUIHandler_onContainerClose(m, w) ==
    IF w = m.containerData.windowId
    THEN LET a == IF m.state = "CLICKING_SLOT" THEN transition(m, "COMPLETED") ELSE m
         IN  [a EXCEPT !.containerData = FreshContainerData]
    ELSE m

\* GUIHandler.clickSlot(slotIndex)
GUIHandler_clickSlot(m) ==
    IF Falsy(m.containerData.windowId) THEN m
    ELSE IF ~m.containerData.received THEN m
    ELSE IF m.state /= "GUI_RECEIVED" THEN m
    ELSE [transition(m, "CLICKING_SLOT") EXCEPT !.guiTimers.assume = @ + 1]

\* the 500 ms callback armed by GUIHandler's inventory_content handler
clickCallback(m) == GUIHandler_clickSlot([m EXCEPT !.guiTimers.click = @ - 1])

\* the 5 s callback armed by GUIHandler.clickSlot
assumeSuccessCallback(m) ==
    LET t == [m EXCEPT !.guiTimers.assume = @ - 1]
    IN  IF t.state = "CLICKING_SLOT" THEN transition(t, "COMPLETED") ELSE t

\* BedrockAFKClient.connect() up to its await
App_connect(m) ==
    IF m.connected THEN m
    ELSE [BedrockClient_connect(m) EXCEPT !.connectPending = TRUE]

\* BedrockAFKClient.disconnect()
App_disconnect(m) ==
    IF ~m.connected THEN m
    ELSE [BedrockClient_disconnect(m) EXCEPT !.connected = FALSE]

\* BedrockAFKClient.sendCommand(commandLine)
App_sendCommand(m) ==
    IF ~(m.connected /\ canSendCommand(m)) THEN m ELSE CommandHandler_sendCommand(m)

(***************************************************************************)
(* Actions of the modular client. The handlers of BedrockClient run first, *)
(* those of GUIHandler (registered after spawn) second.                    *)
(***************************************************************************)
ModContentIds == { NumId(0), StrId("0"), NumId(5) }
ModOpenIds    == { NumId(5), NumId(0) }
ModCloseIds   == { NumId(5), NumId(6) }

Online == bedrockClient.client = "open"

\* the signal joins the history of the client
Received(m, name) == [m EXCEPT !.inbox = @ \cup {name}]

ModConnect ==
    /\ bedrockClient.client = "null"
    /\ CommitM(App_connect(M))

ModDisconnect == connected /\ CommitM(App_disconnect(M))

ModPlayStatus ==
    /\ Online
    /\ \E status \in {"login_success", "player_spawn"} : CommitM(onPlayStatus(M, status))

ModResourcePackStack == Online /\ CommitM(onResourcePackStack(M))

ModStartGame == Online /\ CommitM(Received(BedrockClient_onStartGame(M), "start_game"))

\* no handler is registered for available_commands
ModAvailableCommands == Online /\ CommitM(Received(M, "available_commands"))

ModInventoryContent ==
    /\ Online
    /\ \E w \in ModContentIds :
          LET a == BedrockClient_onInventoryContent(M, w)
              b == IF a.connected THEN GUIHandler_onInventoryContent(a, w) ELSE a
          IN  CommitM(IF w = NumId(0) THEN Received(b, "inventory") ELSE b)

ModInventorySlot ==
    /\ Online
    /\ \E w \in ModContentIds :
          LET a == BedrockClient_onInventorySlot(M, w)
          IN  CommitM(IF w = NumId(0) THEN Received(a, "inventory") ELSE a)

ModSpawn == Online /\ CommitM(onSpawnOnce(M))

ModError == Online /\ \E benign \in BOOLEAN : CommitM(BedrockClient_onError(M, benign))

ModKick == Online /\ CommitM(BedrockClient_onKick(M))

ModContainerOpen ==
    /\ Online /\ connected
    /\ \E w \in ModOpenIds : CommitM(GUIHandler_onContainerOpen(M, w))

ModContainerClose ==
    /\ Online /\ connected
    /\ \E w \in ModCloseIds : CommitM(GUIHandler_onContainerClose(M, w))

ModLoginTimeout == bedrockClient.loginTimeout /\ CommitM(loginTimeoutCallback(M))

ModReadyFallback ==
    /\ bedrockClient.readyFallbackTimer = "armed"
    /\ CommitM(readyFallbackCallback(M))

ModCommand ==
    /\ commandTimers < MaxCommandTimers
    /\ CommitM(App_sendCommand(M))

ModCommandTimer == commandTimers > 0 /\ CommitM(commandCallback(M))

ModClickTimer == guiTimers.click > 0 /\ CommitM(clickCallback(M))

ModAssumeTimer == guiTimers.assume > 0 /\ CommitM(assumeSuccessCallback(M))

(***************************************************************************)
(* SpecMod: the modular client as the entry point wires it. The user       *)
(* connects when no client exists. ModClickTimer and ModAssumeTimer are    *)
(* left out of the next-state relation: NoGuiTimerArmed holds of SpecMod,  *)
(* so neither is ever enabled.                                             *)
(***************************************************************************)
NextMod ==
    \/ ModConnect
    \/ ModDisconnect
    \/ ModPlayStatus
    \/ ModResourcePackStack
    \/ ModStartGame
    \/ ModAvailableCommands
    \/ ModInventoryContent
    \/ ModInventorySlot
    \/ ModSpawn
    \/ ModError
    \/ ModKick
    \/ ModContainerOpen
    \/ ModContainerClose
    \/ ModLoginTimeout
    \/ ModReadyFallback
    \/ ModCommand
    \/ ModCommandTimer

SpecMod == Init /\ [][NextMod]_vars

NoGuiTimerArmed == guiTimers = [click |-> 0, assume |-> 0]

(***************************************************************************)
(* SpecSM: a StateMachine on its own (no client attached), driven through  *)
(* its public methods with every argument.                                 *)
(***************************************************************************)
SMTransition ==
    /\ ~connected
    /\ \E s \in ClientState : CommitM(transition(M, s))

SMSetCommandsAvailable ==
    /\ ~connected
    /\ \E b \in BOOLEAN : CommitM(setCommandsAvailable(M, b))

SMSetInventoryReady ==
    /\ ~connected
    /\ \E b \in BOOLEAN : CommitM(setInventoryReady(M, b))

SMSetContainerData ==
    /\ ~connected
    /\ \E w \in ModOpenIds : CommitM(setContainerData(M, w))

SMReset == ~connected /\ CommitM(reset(M))

NextSM ==
    \/ SMTransition
    \/ SMSetCommandsAvailable
    \/ SMSetInventoryReady
    \/ SMSetContainerData
    \/ SMReset

SpecSM == Init /\ [][NextSM]_vars

(***************************************************************************)
(* SpecGui: a GUIHandler on its own, set up on an open client, with a      *)
(* StateMachine that its owner moves through transition(). The handler     *)
(* clicks config.behavior.slotIndex, here TARGET_SLOT_INDEX.               *)
(***************************************************************************)
MaxGuiTimers == 2
\* packet.input of an inventory_content: the slot filled, empty, missing
GuiInputs == { Ui27, Ui27Blank, <<SomeItem>>, <<>> }
\* packet.window_id of an inventory_content: also window 5 as a string and
\* as a BigInt
GuiContentIds == ModContentIds \cup { StrId("5"), BigId(5) }

\* the handler ran: what GUIHandler does not own stays
CommitGui(m, slots, wrote) ==
    /\ AssignM(m)
    /\ containerSlots' = slots
    /\ written' = wrote
    /\ UNCHANGED <<monoVars, requested, fleetVars, classifyVars, buildVars, nodeVars>>

GuiTransition ==
    /\ smState \in ClientState
    /\ \E s \in ClientState : CommitGui(transition(M, s), containerSlots, written)

GuiContainerOpen ==
    /\ smState \in ClientState
    /\ \E w \in ModOpenIds :
          CommitGui(GUIHandler_onContainerOpen(M, w), containerSlots, written)

GuiInventoryContent ==
    /\ guiTimers.click < MaxGuiTimers
    /\ \E w \in GuiContentIds, input \in GuiInputs :
          CommitGui(GUIHandler_onInventoryContent(M, w),
                    IF w = containerData.windowId THEN input ELSE containerSlots,
                    written)

GuiContainerClose ==
    /\ smState \in ClientState
    /\ \E w \in ModCloseIds :
          CommitGui(GUIHandler_onContainerClose(M, w),
                    IF w = containerData.windowId THEN <<>> ELSE containerSlots,
                    written)

\* the 500 ms callback: clickSlot(slotIndex) writes when it moves the machine
GuiClickTimer ==
    /\ guiTimers.click > 0
    /\ guiTimers.assume < MaxGuiTimers
    /\ LET m == clickCallback(M)
       IN  CommitGui(m, containerSlots,
                     IF m.guiTimers.assume > guiTimers.assume
                     THEN written \cup {At(containerSlots, TARGET_SLOT_INDEX)}
                     ELSE written)

GuiAssumeTimer ==
    /\ guiTimers.assume > 0
    /\ CommitGui(assumeSuccessCallback(M), containerSlots, written)

NextGui ==
    \/ GuiTransition
    \/ GuiContainerOpen
    \/ GuiInventoryContent
    \/ GuiContainerClose
    \/ GuiClickTimer
    \/ GuiAssumeTimer

SpecGui == Init /\ [][NextGui]_vars

(***************************************************************************)
(* The multi-bot console client (src/src/old.js): connection life cycle of *)
(* one bot, with config.ping.autoReconnect enabled. Reconnect delays are   *)
(* not modelled: a pending timeout fires at any time.                      *)
(***************************************************************************)
\* bounds: clients without an entry, pending reconnect timeouts
MaxStrays == 2
MaxFleetTimers == 2

F == [bot |-> botState, strays |-> strayClients, timers |-> fleetTimers]

AssignF(f) ==
    /\ botState' = f.bot
    /\ strayClients' = f.strays
    /\ fleetTimers' = f.timers
    /\ f.strays.open + f.strays.closing <= MaxStrays
    /\ f.timers <= MaxFleetTimers
    /\ UNCHANGED <<monoVars, modVars, pureVars, nodeVars>>

CommitF(f) == AssignF(f) /\ UNCHANGED requested

\* the entry stops referring to its client object
forgetClient(f) ==
    IF f.bot.client = "open"
    THEN [f EXCEPT !.bot.client = "null", !.strays.open = @ + 1]
    ELSE [f EXCEPT !.bot.client = "null"]

startPingMonitor(f) ==
    IF ~f.bot.present THEN f ELSE [f EXCEPT !.bot.pingInterval = TRUE]

stopPingMonitor(f) ==
    IF f.bot.present /\ f.bot.pingInterval THEN [f EXCEPT !.bot.pingInterval = FALSE] ELSE f

connectBot(f) ==
    IF f.bot.present /\ f.bot.connected THEN f
    ELSE [forgetClient(f) EXCEPT !.bot = FreshBot]

\* client.on("spawn")
onBotSpawn(f) ==
    IF ~f.bot.present THEN f
    ELSE startPingMonitor([f EXCEPT !.bot.connected = TRUE,
                                    !.bot.reconnecting = FALSE,
                                    !.bot.autoReconnectEnabled = TRUE])

handleBotDisconnect(f) ==
    IF ~f.bot.present \/ ~f.bot.connected THEN f
    ELSE LET a == forgetClient(stopPingMonitor([f EXCEPT !.bot.connected = FALSE]))
         IN  IF ~a.bot.reconnecting /\ a.bot.autoReconnectEnabled
             THEN [a EXCEPT !.bot.reconnecting = TRUE, !.timers = @ + 1]
             ELSE a

disconnectBot(f) ==
    IF ~f.bot.present THEN f
    ELSE IF ~f.bot.connected /\ ~f.bot.reconnecting THEN f
    ELSE [f EXCEPT !.bot = NoBot,
                   !.strays.closing = IF f.bot.client = "open" THEN @ + 1 ELSE @]

\* the setInterval callback of startPingMonitor once the server is silent
\* for longer than config.ping.timeoutMs
pingTimeoutCallback(f) ==
    IF ~f.bot.present \/ ~f.bot.connected \/ f.bot.client = "null" THEN f
    ELSE IF f.bot.autoReconnectEnabled
         THEN [disconnectBot([f EXCEPT !.bot.reconnecting = TRUE]) EXCEPT !.timers = @ + 1]
         ELSE disconnectBot(f)

\* the connection of a client ends: of the entry's ("bot"), or of a stray
\* one that was open or had close() called
clientGone(f, from) ==
    CASE from = "bot" -> [f EXCEPT !.bot.client = "closed"]
      [] from = "open" -> [f EXCEPT !.strays.open = @ - 1]
      [] OTHER -> [f EXCEPT !.strays.closing = @ - 1]

\* console: connect <name>
FleetConnect ==
    /\ requested' = "connect"
    /\ AssignF(connectBot(F))

\* console: disconnect <name>
FleetDisconnect ==
    /\ requested' = "disconnect"
    /\ AssignF(disconnectBot(F))

\* some open client emits an event
SomeClientOpen == botState.client = "open" \/ strayClients.open > 0

FleetSpawn == SomeClientOpen /\ CommitF(onBotSpawn(F))

\* kick and disconnect packets
FleetKick == SomeClientOpen /\ CommitF(handleBotDisconnect(F))

FleetClose ==
    \E from \in {"bot", "open", "closing"} :
        /\ \/ from = "bot" /\ botState.client = "open"
           \/ from /= "bot" /\ strayClients[from] > 0
        /\ CommitF(handleBotDisconnect(clientGone(F, from)))

FleetPingTimeout == botState.pingInterval /\ CommitF(pingTimeoutCallback(F))

FleetReconnectTimer ==
    /\ fleetTimers > 0
    /\ CommitF(connectBot([F EXCEPT !.timers = @ - 1]))

NextFleet ==
    \/ FleetConnect
    \/ FleetDisconnect
    \/ FleetSpawn
    \/ FleetKick
    \/ FleetClose
    \/ FleetPingTimeout
    \/ FleetReconnectTimer

SpecFleet == Init /\ [][NextFleet]_vars /\ WF_vars(FleetReconnectTimer)

(***************************************************************************)
(* SpecReadiness: one connection of the console client that stays open.    *)
(* The server sends readiness and inventory signals in any order and any   *)
(* number, the transport accepts the scripted command, the 600 ms timers   *)
(* fire (node runs a due timer).                                           *)
(***************************************************************************)
ScriptedDispatch == settleTimers > 0 /\ Do(settleCallback(G, TRUE))

NextReadiness ==
    \/ UserConnect
    \/ Spawn
    \/ StartGame
    \/ AvailableCommands
    \/ InventoryContent
    \/ InventorySlot
    \/ FallbackTimer
    \/ ScriptedDispatch

SpecReadiness == Init /\ [][NextReadiness]_vars /\ WF_vars(ScriptedDispatch)

(***************************************************************************)
(* SpecReconnect: the Reconnection Supervisor of the console client on its *)
(* own. The user connects and disconnects, the server closes, kicks (with  *)
(* any reason) or lets a connect time out, reconnect timers fire. A client *)
(* that `client` no longer holds still delivers its close event.           *)
(***************************************************************************)
\* console: connect
RequestConnect ==
    /\ ~crashed
    /\ requested' = "connect"
    /\ Assign(connectServer(G))
    /\ UNCHANGED <<modVars, fleetVars, pureVars, nodeVars>>

\* console: disconnect, exit, quit
RequestDisconnect ==
    /\ ~crashed
    /\ requested' = "disconnect"
    /\ Assign(disconnectServer(G))
    /\ UNCHANGED <<modVars, fleetVars, pureVars, nodeVars>>

SupervisorTimer ==
    /\ reconnectTimeouts /= <<>>
    /\ reconnectAttempt < MaxBackoff
    /\ Do(reconnectCallback(G))

NextReconnect ==
    \/ RequestConnect
    \/ RequestDisconnect
    \/ Close
    \/ OrphanClose
    \/ Kick
    \/ ConnectTimeout
    \/ SupervisorTimer

SpecReconnect == Init /\ [][NextReconnect]_vars

(***************************************************************************)
(* SpecTake: one open connection of the console client, its container      *)
(* packets, and the console commands `take <n>` and `slot <n>` with every  *)
(* kind of index: not a number (Null), negative, inside a 27-slot          *)
(* container, just outside it, outside a 36-slot one.                      *)
(***************************************************************************)
TakeInputs == { Null, -1, 0, TARGET_SLOT_INDEX, 27, 40 }

\* console: take <n>
consoleTake(g, n, ok) ==
    IF n = Null \/ n < 0 THEN g
    ELSE tryTakeFromOpenContainer([g EXCEPT !.desiredTakeSlotIndex = n], n, ok)

\* console: slot <n>
consoleSlot(g, n) ==
    IF n = Null \/ n < 0 THEN g ELSE [g EXCEPT !.desiredTakeSlotIndex = n]

TakeTyped == ~crashed /\ \E n \in TakeInputs, ok \in BOOLEAN : Do(consoleTake(G, n, ok))

SlotTyped == ~crashed /\ \E n \in TakeInputs : Do(consoleSlot(G, n))

NextTake ==
    \/ UserConnect
    \/ ContainerOpen
    \/ InventoryContent
    \/ InventorySlot
    \/ ContainerClose
    \/ TakeTyped
    \/ SlotTyped

SpecTake == Init /\ [][NextTake]_vars

(***************************************************************************)
(* SpecClassify: isUiLikeContainerSnapshot on its own, applied to every    *)
(* combination of container_id, dynamic_container_id and array length.     *)
(***************************************************************************)
ContainerIdHints == {NoHint, "container", "barrel"} \cup InventoryLike
DynamicIdHints == {Null, 0, 3}
SlotCounts == {0, 1, 9, 27, 36, 54}

Classify ==
    \E containerId \in ContainerIdHints, dynamicId \in DynamicIdHints, size \in SlotCounts :
        /\ snapshot' = [containerId |-> containerId, dynamicId |-> dynamicId, size |-> size]
        /\ verdict' = isUiLikeContainerSnapshot(containerId, dynamicId, size)
        /\ UNCHANGED <<monoVars, modVars, requested, fleetVars, buildVars, guiVars, nodeVars>>

SpecClassify == Init /\ [][Classify]_vars

(***************************************************************************)
(* SpecBuild: the transaction clickSlot builds, for every player snapshot  *)
(* of up to MaxInv slots, unknown included. A window whose id is 0 shares   *)
(* its slots with the player snapshot (both are written from the same      *)
(* packets), so there the clicked item is in the player snapshot too.      *)
(***************************************************************************)
MaxInv == 3
PlayerSnapshots ==
    {NoArray} \cup UNION {[1..n -> {Hole, EMPTY_ITEM, SomeItem}] : n \in 0..MaxInv}
ClickWindows == {PLAYER_INVENTORY_WINDOW_ID, 12}

BuildClick ==
    \E items \in PlayerSnapshots, windowId \in ClickWindows,
       slotIndex \in 0..(MaxInv - 1), item \in {SomeItem, SomeItem + 1} :
        /\ windowId = PLAYER_INVENTORY_WINDOW_ID => At(items, slotIndex) = item
        /\ clickArgs' = [items |-> items, windowId |-> windowId,
                         slotIndex |-> slotIndex, item |-> item]
        /\ tx' = clickTransaction(items, windowId, slotIndex, item)
        /\ UNCHANGED <<monoVars, modVars, requested, fleetVars, classifyVars, guiVars, nodeVars>>

SpecBuild == Init /\ [][BuildClick]_vars

(***************************************************************************)
(* Properties.                                                             *)
(***************************************************************************)
\* a command_request was queued in this step
CommandQueued == commandSentCount' = commandSentCount + 1
\* an inventory_transaction was queued in this step
TransactionQueued == transport'.txSeq /= transport.txSeq
\* this step is the inventory_content handler run on packet p
SnapshotStep(p, ok) == Alive /\ Commit(onInventoryContent(G, p, ok))
\* this step is the container_close handler run on window id w
CloseStep(w) == Alive /\ Commit(onContainerClose(G, w))
\* the classifier's verdict on packet p
Foreign(p) == isUiLikeContainerSnapshot(p.container_id, p.dynamic_container_id, Len(p.input))

\* C1: a command_request is queued only in READY with the command catalog
\* seen and the inventory ready, whether scripted or typed (cmd / tpa).
C1_CommandOnlyWhenReady ==
    [][CommandQueued => state = "READY" /\ availableCommandsSeen /\ inventoryReady]_vars

\* both readiness flags of the open connection are set
ReadinessComplete == client = "open" /\ availableCommandsSeen /\ inventoryReady

C3_ContainerOpenLeadsToGuiReceived ==
    [][(/\ smState = "COMMAND_SENT"
        /\ containerData'.windowId /= containerData.windowId
        /\ containerData'.windowId /= NullId)
        => smState' = "GUI_RECEIVED"]_vars

\* C4: once the command-catalog signal and the inventory signal have both
\* arrived, in either order, a session past game-start is no longer waiting
\* for readiness.
C4_ReadyOnceBothSignals ==
    ~(/\ {"available_commands", "inventory"} \subseteq inbox
      /\ smState \in {"SPAWNING", "WAITING_COMMANDS", "WAIT_INVENTORY_READY"})

\* C5: once inventoryReady is true no call makes it false again, a later
\* setInventoryReady(false) included; only reset() clears it.
C5_InventoryReadySticky ==
    [][stateData.inventoryReady =>
          \/ stateData'.inventoryReady
          \/ (smState' = "DISCONNECTED" /\ stateData' = FreshStateData)]_vars

\* C6: in the modular client the receipt of available_commands sets
\* commandsAvailable.
C6_AvailableCommandsSetsFlag ==
    [][("available_commands" \notin inbox /\ "available_commands" \in inbox')
        => stateData'.commandsAvailable]_vars

C8_ClickOnlyAfterSnapshot ==
    [][TransactionQueued =>
          /\ currentWindowId' /= Null
          /\ containerItemsDumpedForWindow' = currentWindowId']_vars

\* C9: once a transaction is out for the tracked window, the container_close
\* for that window moves the session to DONE.
C9_CloseAfterClickCompletes ==
    [][\A w \in CloseIds :
          \/ state' = "DONE"
          \/ ~(/\ currentWindowId /= Null
               /\ normalizeWindowId(w) = currentWindowId
               /\ transport.txFor = currentWindowId)
          \/ ~CloseStep(w)]_vars

\* C10: DONE is entered only from CLICK_SENT, by the close of the tracked
\* window, with a transaction queued for that window since it was tracked and
\* since the last command; no other close enters DONE.
C10_DoneOnlyAfterClick ==
    [][(state' = "DONE" /\ state /= "DONE") =>
          /\ state = "CLICK_SENT"
          /\ clickSent
          /\ currentWindowId /= Null
          /\ transport.txFor = currentWindowId
          /\ currentWindowId' = Null]_vars

\* the flow completed: the window a transaction went out for was closed
C10_Witness == state = "DONE" /\ transport.txFor /= Null /\ currentWindowId = Null

\* a client is created in this step
ConnectionAttempt == client = "none" /\ client' = "open"

\* C13: once the user has asked to disconnect, no connection is created
\* until the user asks to connect, also when the request came while a
\* reconnect was pending.
C13_NoAttemptAfterDisconnect ==
    [][requested = "disconnect" /\ ConnectionAttempt => requested' = "connect"]_vars

\* C15: a held connection handle and a pending reconnect exclude each other.
C15_TimerExcludesClient ==
    client /= "none" => ~reconnectTimer /\ reconnectTimeouts = <<>>

\* a reconnect fired and created the connection now held, nothing is pending
C15_Witness ==
    client = "open" /\ reconnectAttempt > 0 /\ requested = "connect" /\ ~reconnectTimer

\* C16: at most one reconnect timeout is due, and while one is due no close,
\* kick or connect timeout changes it or the attempt counter.
C16_OneTimerPending ==
    /\ [](Len(reconnectTimeouts) <= 1)
    /\ [][reconnectTimer /\ reconnectTimer'
            => UNCHANGED <<reconnectTimeouts, reconnectAttempt>>]_vars

\* a timer is due while a dropped client's close event is still to come
C16_Witness ==
    reconnectTimer /\ orphans.closing > 0 /\ reconnectAttempt > 0

\* the base delays the specification lists
ExpectedBase(attempt) ==
    CASE attempt = 0 -> 2000
      [] attempt = 1 -> 4000
      [] attempt = 2 -> 8000
      [] attempt = 3 -> 16000
      [] attempt = 4 -> 32000
      [] OTHER -> 60000

\* C17: the base delay of every armed reconnect is 2000 * 2^attempt up to
\* attempt 4 and 60000 from attempt 5 on, grows with the attempt, never
\* exceeds 60000; the wait is never below 250.
C17_BackoffBase ==
    \A i \in DOMAIN reconnectTimeouts :
        LET t == reconnectTimeouts[i]
        IN  /\ t.base = ExpectedBase(t.attempt)
            /\ t.base <= 60000
            /\ \A a \in 0..t.attempt : reconnectBase(a) <= t.base
            /\ t.wait >= 250

\* a reconnect armed past the cap
C17_Witness ==
    /\ reconnectTimeouts /= <<>>
    /\ reconnectTimeouts[1].attempt = 6
    /\ reconnectTimeouts[1].delayMs = Null

\* C18: the user's disconnect resets the attempt counter to zero.
C18_DisconnectResetsAttempt ==
    [][wantConnected /\ ~wantConnected' => reconnectAttempt' = 0]_vars

\* kick messages that hold "already online" in some letter case
AlreadyOnlineReasons ==
    { AlreadyOnlineText,
      <<"!", " ", "A", "l", "r", "e", "a", "d", "y", " ", "O", "N", "L", "I", "N", "E", ".">> }

\* C19: a kick that says "already online" in any letter case sets the 30000
\* override; the reconnect armed for that loss waits 30000 plus jitter, any
\* other one the computed base plus jitter; the loss consumes the override.
C19_AlreadyOnlineOverride ==
    /\ [][\A reason \in AlreadyOnlineReasons :
            \/ pendingReconnectDelayMs' = AlreadyOnlineDelayMs
            \/ ~(Alive /\ Commit(onKick(G, saysAlreadyOnline(reason))))]_vars
    /\ [][~reconnectTimer /\ reconnectTimer'
            => LET t == reconnectTimeouts'[Len(reconnectTimeouts')]
               IN  /\ t.wait = t.jitter + (IF pendingReconnectDelayMs = AlreadyOnlineDelayMs
                                              THEN 30000 ELSE t.base)
                   /\ pendingReconnectDelayMs' = Null]_vars
    /\ [][client /= "none" /\ client' = "none" => pendingReconnectDelayMs' = Null]_vars

\* a reconnect armed with the override although attempts were counted
C19_Witness ==
    /\ reconnectTimeouts /= <<>>
    /\ reconnectTimeouts[1].attempt > 0
    /\ reconnectTimeouts[1].wait = 30499

\* C11: on a connection where no container_close arrives, a session that
\* has sent its slot transaction (CLICK_SENT) reaches DONE all the same.
C11_ClickLeadsToDone == (state = "CLICK_SENT") ~> (state = "DONE")

\* C12: a session awaiting the UI of its command either gets a window or
\* leaves WAIT_UI for ERROR.
C12_UiTimeoutLeadsToError ==
    (state = "WAIT_UI" /\ currentWindowId = Null)
        ~> (state = "ERROR" \/ currentWindowId /= Null)

\* C20: the step that queues a command_request leaves no tracked window id,
\* type, items, click-sent flag, dump marker or candidate signature.
C20_CommandClearsWindow ==
    [][CommandQueued =>
          /\ currentWindowId' = Null
          /\ currentWindowType' = NoType
          /\ currentWindowItems' = NoArray
          /\ ~clickSent'
          /\ containerItemsDumpedForWindow' = Null
          /\ lastUiCandidateSignature' = NoSig]_vars

\* a command went out after a slot transaction of an earlier flow on the
\* same connection, and the session awaits the new UI with nothing tracked
C20_Witness ==
    /\ state = "WAIT_UI"
    /\ commandSentCount = 1
    /\ transport.txSeq = 1
    /\ reconnectAttempt = 0
    /\ currentWindowId = Null
    /\ ~clickSent

\* C14: while the user wants the bot connected and its connection is gone,
\* a new client is eventually created unless the user asks to disconnect,
\* also when the connection was lost during a reconnect attempt before the
\* spawn.
C14_LossLeadsToAttempt ==
    (requested = "connect" /\ botState.client /= "open")
        ~> (botState.client = "open" \/ requested = "disconnect")

(***************************************************************************)
(* Container Inference Engine and Slot Transaction Builder.                *)
(***************************************************************************)
\* a container_id that is a string other than the five inventory aliases
ForeignContainerId(s) == s.containerId /= NoHint /\ s.containerId \notin InventoryLike

\* C21: the classifier's result is that of five rules tried in order, the
\* first that applies deciding: 36 slots, not foreign; a container id other
\* than the inventory aliases, foreign; a dynamic id present, foreign; a
\* positive slot count other than 36, foreign; otherwise not foreign. So a
\* 36-slot snapshot is not foreign whatever its hints, and one with no
\* slots and no hints is not foreign.
C21_FiveOrderedRules ==
    snapshot /= NoSnapshot =>
        /\ verdict = CASE snapshot.size = 36 -> FALSE
                        [] snapshot.size /= 36 /\ ForeignContainerId(snapshot) -> TRUE
                        [] snapshot.size /= 36 /\ ~ForeignContainerId(snapshot)
                             /\ snapshot.dynamicId /= Null -> TRUE
                        [] snapshot.size /= 36 /\ ~ForeignContainerId(snapshot)
                             /\ snapshot.dynamicId = Null /\ snapshot.size > 0 -> TRUE
                        [] OTHER -> FALSE
        /\ (snapshot.size = 36 => ~verdict)
        /\ (/\ snapshot.size = 0
            /\ snapshot.containerId = NoHint
            /\ snapshot.dynamicId = Null) => ~verdict

\* a 36-slot snapshot carrying both a foreign container id and a dynamic id
\* was classified, as not foreign
C21_Witness ==
    /\ snapshot = [containerId |-> "container", dynamicId |-> 3, size |-> 36]
    /\ ~verdict

\* C22 (as the code has it): a snapshot that carries a dynamic container id
\* is classified foreign if and only if it does not have exactly 36 slots.
C22_DynamicIdForeignUnless36 ==
    (snapshot /= NoSnapshot /\ snapshot.dynamicId /= Null)
        => (verdict <=> snapshot.size /= 36)

\* a snapshot with no slots whose only hint is its dynamic id was classified
\* foreign
C22_Witness ==
    /\ snapshot = [containerId |-> NoHint, dynamicId |-> 3, size |-> 0]
    /\ verdict

\* C22 (as stated): every snapshot that carries a dynamic container id is
\* classified foreign.
C22_DynamicIdAlwaysForeign ==
    (snapshot /= NoSnapshot /\ snapshot.dynamicId /= Null) => verdict

\* while window 0 is the tracked window, every item of the tracked window
\* is in the player snapshot at the same slot (an invariant of Spec)
PlayerWindowShared ==
    (currentWindowId = PLAYER_INVENTORY_WINDOW_ID /\ IsArray(currentWindowItems)) =>
        \A i \in 0..(Len(currentWindowItems) - 1) :
            ~isEmptyItem(At(currentWindowItems, i))
                => At(playerInventoryItems, i) = At(currentWindowItems, i)

\* the vacant indices of a player snapshot (none when it is unknown)
Vacant(items) ==
    IF IsArray(items) THEN {i \in 0..(Len(items) - 1) : isEmptyItem(items[i + 1])} ELSE {}

\* C23: the transaction of a click is the two-action relocation exactly when
\* the player snapshot is known and has a vacant slot, and then its
\* destination is the lowest vacant index of the player window; otherwise it
\* is the single action whose old and new item are both the source item at
\* (windowId, slotIndex).
C23_RelocationIffVacancy ==
    clickArgs /= NoClick =>
        LET a == clickArgs
            vac == Vacant(a.items)
        IN  IF vac /= {}
            THEN /\ Len(tx.actions) = 2
                 /\ tx.actions[1] = Action(a.windowId, a.slotIndex, a.item, EMPTY_ITEM)
                 /\ tx.actions[2].inventory_id = PLAYER_INVENTORY_WINDOW_ID
                 /\ tx.actions[2].slot \in vac
                 /\ \A i \in vac : tx.actions[2].slot <= i
                 /\ tx.actions[2].old_item = EMPTY_ITEM
                 /\ tx.actions[2].new_item = a.item
            ELSE tx.actions = <<Action(a.windowId, a.slotIndex, a.item, a.item)>>

\* a relocation was built for a snapshot with two vacant slots, neither the
\* first
C23_Witness ==
    /\ clickArgs.items = <<SomeItem, EMPTY_ITEM, Hole>>
    /\ clickArgs.windowId = 12
    /\ Len(tx.actions) = 2
    /\ tx.actions[2].slot = 1

\* the windows before the click: the player window as the snapshot has it,
\* the clicked window with the item at the clicked slot
WindowsBefore(a) ==
    [w \in {PLAYER_INVENTORY_WINDOW_ID, a.windowId} |->
        IF w = PLAYER_INVENTORY_WINDOW_ID THEN a.items
        ELSE [k \in 1..MaxInv |-> IF k = a.slotIndex + 1 THEN a.item ELSE EMPTY_ITEM]]
\* a decoder of Transaction.actions: each action sets its slot to new_item
RECURSIVE ApplyActions(_, _)
ApplyActions(windows, actions) ==
    IF actions = <<>> THEN windows
    ELSE LET act == Head(actions)
         IN  ApplyActions([windows EXCEPT ![act.inventory_id][act.slot + 1] = act.new_item],
                          Tail(actions))

\* C24: the relocation transaction for window W, slot S, item I and
\* destination D has exactly two actions, and applying them empties slot S
\* of W, puts I into slot D of the player window and changes no other slot.
C24_RelocationNetEffect ==
    (clickArgs /= NoClick /\ Vacant(clickArgs.items) /= {}) =>
        LET a == clickArgs
            D == tx.actions[2].slot
            before == WindowsBefore(a)
            after == ApplyActions(before, tx.actions)
        IN  /\ Len(tx.actions) = 2
            /\ after[a.windowId][a.slotIndex + 1] = EMPTY_ITEM
            /\ after[PLAYER_INVENTORY_WINDOW_ID][D + 1] = a.item
            /\ \A w \in DOMAIN before : \A k \in DOMAIN before[w] :
                   (<<w, k>> \notin {<<a.windowId, a.slotIndex + 1>>,
                                     <<PLAYER_INVENTORY_WINDOW_ID, D + 1>>})
                       => after[w][k] = before[w][k]
            /\ DOMAIN after = DOMAIN before
            /\ \A w \in DOMAIN before : DOMAIN after[w] = DOMAIN before[w]

\* the relocation of item 7 from slot 2 of window 12 to slot 0 was built
C24_Witness ==
    /\ clickArgs = [items |-> <<Hole, SomeItem, EMPTY_ITEM>>, windowId |-> 12,
                    slotIndex |-> 2, item |-> SomeItem]
    /\ tx = buildMoveToInventoryTransaction(12, 2, 0, SomeItem)

\* the console client queues a transaction only for a slot that holds an
\* item: clickSlot returns before it sends otherwise (the slot clicked in
\* Spec is TARGET_SLOT_INDEX)
ConsoleRefusesEmptySlot ==
    [][TransactionQueued =>
          ~isEmptyItem(At(currentWindowItems', TARGET_SLOT_INDEX))]_vars

TakeStep(n, ok) == ~crashed /\ Commit(consoleTake(G, n, ok))
\* index n is not a slot of the tracked container
BadIndex(n, items) == n = Null \/ n < 0 \/ (IsArray(items) /\ n >= Len(items))

\* C26: a target index that is not an integer, is negative, or is not below
\* the slot count of the tracked container causes no transaction and no
\* change of state: a `take n` with such an index leaves the state as it
\* was and queues nothing, and while the desired index is such no handler
\* queues a transaction.
C26_BadIndexNoEffect ==
    /\ [][\A n \in TakeInputs, ok \in BOOLEAN :
             \/ ~(currentWindowId /= Null /\ BadIndex(n, currentWindowItems))
             \/ (~TransactionQueued /\ state' = state)
             \/ ~TakeStep(n, ok)]_vars
    /\ [][(currentWindowId' /= Null /\ BadIndex(desiredTakeSlotIndex', currentWindowItems'))
             => ~TransactionQueued]_vars

(***************************************************************************)
(* StateMachine.                                                           *)
(***************************************************************************)
\* this step is transition(newState) called on the machine
TransitionStep(newState) == ~connected /\ CommitM(transition(M, newState))

\* C27: transition(newState) with newState not among the listed successors
\* of the current state (it then returns false: canTransition is false)
\* leaves state and stateData as they were; with a listed successor (it
\* returns true) the state is exactly newState and stateData is untouched.
C27_TransitionFollowsTable ==
    [][\A newState \in ClientState :
          \/ IF canTransition(M, newState)
             THEN smState' = newState /\ stateData' = stateData
             ELSE smState' = smState /\ stateData' = stateData
          \/ ~TransitionStep(newState)]_vars

\* the machine was taken along listed successors up to CLICKING_SLOT, with
\* state data set on the way
C27_Witness ==
    /\ ~connected
    /\ smState = "CLICKING_SLOT"
    /\ stateData.commandsAvailable
    /\ stateData.windowId /= NullId

\* C28: in every state but COMPLETED and ERROR a transition to ERROR is
\* accepted; in COMPLETED and ERROR no transition is accepted.
C28_ErrorFromEveryNonTerminal ==
    /\ smState \notin {"COMPLETED", "ERROR"} => canTransition(M, "ERROR")
    /\ smState \in {"COMPLETED", "ERROR"} => \A s \in ClientState : ~canTransition(M, s)

\* start_game is processed in this step, for the first time on its connection
GameStartProcessed == "start_game" \notin inbox /\ "start_game" \in inbox'

\* C29: on every connection of the modular client, a connection made after
\* disconnect() included, processing start_game leaves the 15 s ready
\* fallback pending (whose callback forces commandsAvailable and
\* inventoryReady, hence READY).
C29_GameStartArmsFallback ==
    [][GameStartProcessed => bedrockClient'.readyFallbackTimer = "armed"]_vars

\* the console client: connectServer leaves no reconnect timeout pending
ConnectCancelsReconnect ==
    [][(client = "none" /\ client' = "open") => reconnectTimeouts' = <<>>]_vars

\* C30: a connect typed while a reconnect is pending cancels it, so exactly
\* one connection results; here of the multi-bot client: once the user's
\* connect has made a connection, a reconnect timeout that fires makes no
\* second one (the entry keeps its client, no client is left without an
\* entry).
C30_TimerMakesNoSecondConnection ==
    [][(/\ fleetTimers' < fleetTimers
        /\ requested = "connect"
        /\ botState.present
        /\ botState.client = "open")
          => (botState' = botState /\ strayClients' = strayClients)]_vars

(***************************************************************************)
(* Window frames, window ids, benign errors.                               *)
(***************************************************************************)
\* this step is the inventory_slot handler run on packet p
SlotStep(p, ok) == Alive /\ Commit(onInventorySlot(G, p, ok))
\* a window is tracked and id w is, once normalized, another one
OtherWindow(w) == currentWindowId /= Null /\ normalizeWindowId(w) /= currentWindowId

\* C31: while a window is tracked, an inventory_content or inventory_slot
\* whose normalized window id is not the tracked id changes neither the
\* state nor the items of the tracked window.
C31_OtherWindowLeavesSession ==
    /\ [][\A p \in ContentPackets, ok \in BOOLEAN :
             \/ ~OtherWindow(p.window_id)
             \/ (state' = state /\ currentWindowItems' = currentWindowItems)
             \/ ~SnapshotStep(p, ok)]_vars
    /\ [][\A p \in SlotPackets, ok \in BOOLEAN :
             \/ ~OtherWindow(p.window_id)
             \/ (state' = state /\ currentWindowItems' = currentWindowItems)
             \/ ~SlotStep(p, ok)]_vars

\* C32: window ids are compared in normalized form, so the number, string
\* and BigInt forms of one id are the same window; here of GUIHandler: an
\* inventory_content whose id is, normalized, the id of the opened container
\* is taken as that container's content.
C32_SameWindowInEveryForm ==
    \A w \in GuiContentIds :
        (/\ containerData.windowId /= NullId
         /\ normalizeWindowId(w) = normalizeWindowId(containerData.windowId))
            => GUIHandler_onInventoryContent(M, w).containerData.received

\* the console client takes the content of the tracked window in each form
\* of its id (Spec sends window 5 as a number and as a string)
ConsoleMatchesNormalizedId ==
    \A p \in ContentPackets, ok \in BOOLEAN :
        (currentWindowId /= Null /\ normalizeWindowId(p.window_id) = currentWindowId)
            => onInventoryContent(G, p, ok).currentWindowItems = p.input

\* C33: an error whose message contains "Read error" or "Invalid tag"
\* changes nothing, in every state; here of the modular client: the error
\* handlers, run on such an error, leave every object as it was.
C33_BenignErrorChangesNothing == Online => BedrockClient_onError(M, TRUE) = M

\* the console client's error handler returns on such a message
\* (kind "benign")
ConsoleBenignErrorChangesNothing ==
    \A jitter \in Jitters : Alive => onError(G, "benign", jitter) = G

(***************************************************************************)
(* Readiness and the flow after the command.                               *)
(***************************************************************************)
\* C34: whenever the state is READY both readiness flags are true, in the
\* console client and in the modular client alike.
C34_ReadyImpliesBothFlags ==
    /\ state = "READY" => (availableCommandsSeen /\ inventoryReady)
    /\ smState = "READY" => (stateData.commandsAvailable /\ stateData.inventoryReady)

\* the console client is READY again on a connection made by the reconnect
\* timer
C34_Witness ==
    /\ state = "READY"
    /\ availableCommandsSeen
    /\ inventoryReady
    /\ reconnectAttempt > 0


\* the states of the readiness phase
ReadinessStates == {"WAIT_AVAILABLE_COMMANDS", "WAIT_INVENTORY_READY", "READY"}

\* what each readiness-phase signal makes of g: spawn, start_game,
\* available_commands, and the snapshots and slot updates of the player's
\* inventory
AfterReadinessSignal(g) ==
    {onSpawn(g), onStartGame(g), onAvailableCommands(g)}
        \cup { onInventoryContent(g, p, ok) : p \in {q \in ContentPackets :
                    isPlayerInventoryWindowId(normalizeWindowId(q.window_id))},
                                              ok \in BOOLEAN }
        \cup { onInventorySlot(g, p, ok) : p \in {q \in SlotPackets :
                    isPlayerInventoryWindowId(normalizeWindowId(q.window_id))},
                                           ok \in BOOLEAN }

\* a command was dispatched on the one connection there is, and the session
\* has left the readiness phase
CommandDispatched ==
    /\ client = "open"
    /\ orphans = [open |-> 0, closing |-> 0]
    /\ commandSentCount > 0
    /\ state \notin ReadinessStates

\* C35: after a command has been dispatched on a connection, no later
\* readiness-phase signal on that connection moves the state back to
\* WAIT_AVAILABLE_COMMANDS, WAIT_INVENTORY_READY or READY.
C35_NoReturnToReadiness ==
    CommandDispatched => \A g \in AfterReadinessSignal(G) : g.state \notin ReadinessStates

\* the same, of every signal but spawn
NoReturnBarSpawn ==
    CommandDispatched =>
        \A g \in AfterReadinessSignal(G) \ {onSpawn(G)} : g.state \notin ReadinessStates


\* SpecAuto: the console client left to its automatic flow: the user connects,
\* disconnects and may type a command, but types no `take`
NextAuto ==
    \/ InventoryContent
    \/ InventorySlot
    \/ ContainerOpen
    \/ ContainerClose
    \/ Spawn
    \/ StartGame
    \/ AvailableCommands
    \/ SettleTimer
    \/ FallbackTimer
    \/ ReconnectTimer
    \/ Close
    \/ Kick
    \/ UserConnect
    \/ UserDisconnect
    \/ UserCommand

SpecAuto == Init /\ [][NextAuto]_vars

\* the automatic flow of the console client: what an inventory_content or
\* inventory_slot makes of g
AfterWindowFrame(g) ==
    { onInventoryContent(g, p, ok) : p \in ContentPackets, ok \in BOOLEAN }
        \cup { onInventorySlot(g, p, ok) : p \in SlotPackets, ok \in BOOLEAN }

\* C36: for each container open, explicit or inferred, the automatic flow
\* sends at most one inventory_transaction: once a transaction was queued
\* for the open container, no snapshot and no slot update queues another.
C36_OneTransactionPerOpen ==
    (Alive /\ transport.txFor /= Null) =>
        \A g \in AfterWindowFrame(G) : g.transport.txSeq = transport.txSeq

\* after the click a further snapshot of the container arrived: the session
\* waits on the content again and the one transaction stays the only one
C36_Witness ==
    /\ client = "open"
    /\ state = "WAIT_CONTAINER_CONTENT"
    /\ clickSent
    /\ currentWindowId /= Null
    /\ transport.txFor = currentWindowId
    /\ ~isEmptyItem(At(currentWindowItems, TARGET_SLOT_INDEX))

\* GUIHandler: a click is written only on leaving GUI_RECEIVED, and
\* GUI_RECEIVED is entered only by container_open, however many 500 ms
\* callbacks are pending
GuiOneClickPerOpen ==
    /\ [][guiTimers'.assume > guiTimers.assume
            => (smState = "GUI_RECEIVED" /\ smState' = "CLICKING_SLOT")]_vars
    /\ [][(smState /= "GUI_RECEIVED" /\ smState' = "GUI_RECEIVED")
            => (/\ smState \in {"COMMAND_SENT", "READY", "WAITING_GUI"}
                /\ \E w \in ModOpenIds : M' = GUIHandler_onContainerOpen(M, w))]_vars

\* two 500 ms callbacks are pending after the click
SeveralClickTimersPending == smState = "CLICKING_SLOT" /\ guiTimers.click >= 2


(***************************************************************************)
(* Close events of replaced connections.                                   *)
(***************************************************************************)
\* what the close event of a client that `client` no longer holds makes of g
AfterStaleClose(g) ==
    { onClose(g, from, jitter) : from \in {f \in {"open", "closing"} : g.orphans[f] > 0},
                                 jitter \in Jitters }

\* C37: a close event emitted by a connection that was already replaced
\* never discards the handle of the current connection and never resets
\* the current state.
C37_StaleCloseLeavesCurrent ==
    client = "open" =>
        \A g \in AfterStaleClose(G) : g.client = "open" /\ g.state = state


(***************************************************************************)
(* The player's inventory snapshot.                                        *)
(***************************************************************************)
\* C38: the player-inventory snapshot is replaced only by snapshots of the
\* player's own inventory: an inventory_content classified as a foreign UI
\* whose window is the tracked container once it is processed leaves
\* playerInventoryItems as it was.
C38_ForeignUiKeepsPlayerSnapshot ==
    Alive =>
        \A p \in ContentPackets, ok \in BOOLEAN :
            LET g == onInventoryContent(G, p, ok)
            IN  (/\ Foreign(p)
                 /\ g.currentWindowId /= Null
                 /\ g.currentWindowId = normalizeWindowId(p.window_id))
                    => g.playerInventoryItems = playerInventoryItems


(***************************************************************************)
(* The node server: startBot, stopBot, reconnectBot and the handlers that  *)
(* startBot registers on each client, for one bot id. The handlers are     *)
(* closures over bot_id: whichever client emits the event, they look the   *)
(* entry up in botClients. An await is a point where other callbacks run.  *)
(* auto_reconnect is left at its default (enabled).                        *)
(***************************************************************************)
MaxStarts == 2
MaxNodeTimers == 2

\* the node server as one record
N == [edition |-> edition, botClients |-> botClients, bots |-> bots, born |-> born,
      starts |-> starts, stops |-> stops, timers |-> nodeTimers, wanted |-> wanted]

AssignN(n) ==
    /\ edition' = n.edition
    /\ botClients' = n.botClients
    /\ bots' = n.bots
    /\ born' = n.born
    /\ starts' = n.starts
    /\ stops' = n.stops
    /\ nodeTimers' = n.timers
    /\ wanted' = n.wanted
    /\ n.starts.user + n.starts.timer <= MaxStarts
    /\ n.timers <= MaxNodeTimers
    /\ UNCHANGED <<monoVars, modVars, requested, fleetVars, pureVars>>

\* client.close() of client c: its close event is due
closeOf(n, c) ==
    IF n.bots[c].status = "open" THEN [n EXCEPT !.bots[c].status = "closing"] ELSE n

\* botClients.delete(bot_id)
deleteEntry(n) == [n EXCEPT !.botClients = 0]

\* reconnectBot(bot_id, payload, retryCount): arms the 5 s callback
reconnectBot(n) ==
    LET b == n.botClients
    IN  IF b /= 0 /\ n.bots[b].reconnecting THEN n
        ELSE LET a == IF b /= 0 /\ n.edition = "part_004"
                      THEN [n EXCEPT !.bots[b].reconnecting = TRUE]
                      ELSE n
             IN  [a EXCEPT !.timers = @ + 1]

\* startBot up to its first await; origin "user" (a start command) or
\* "timer" (the callback of reconnectBot)
startBotLookup(n, origin) ==
    LET b == n.botClients
    IN  IF b = 0 THEN [n EXCEPT !.starts[origin] = @ + 1]
        ELSE IF n.edition = "part_004" THEN n
        ELSE [deleteEntry(closeOf([n EXCEPT !.bots[b].manuallyStopped = TRUE], b))
                EXCEPT !.starts[origin] = @ + 1]

\* startBot after its awaits: createClient and botClients.set
startBotCreate(n, origin) ==
    LET c == n.born + 1
    IN  [n EXCEPT !.starts[origin] = @ - 1,
                  !.born = c,
                  !.bots[c] = FreshEntry,
                  !.botClients = c]

\* stopBot up to its await (part_004 has none: the whole of it, and it
\* refuses to stop a bot that has not spawned)
stopBot(n) ==
    LET b == n.botClients
    IN  IF n.edition = "part_004"
        THEN IF b = 0 THEN [n EXCEPT !.wanted = "stop"]
             ELSE IF ~n.bots[b].connected THEN n
             ELSE [deleteEntry(closeOf([n EXCEPT !.bots[b].manuallyStopped = TRUE], b))
                     EXCEPT !.wanted = "stop"]
        ELSE IF b = 0 THEN [n EXCEPT !.wanted = "stop"]
             ELSE [n EXCEPT !.stops = @ \cup {b}]

\* stopBot of node-server-firebase.js after `await addBotLog`, holding entry b
stopBotResume(n, b) ==
    [deleteEntry(closeOf([n EXCEPT !.bots[b].manuallyStopped = TRUE,
                                   !.stops = @ \ {b}], b))
        EXCEPT !.wanted = "stop"]

\* client.on('spawn')
onClientSpawn(n) ==
    IF n.botClients /= 0 THEN [n EXCEPT !.bots[n.botClients].connected = TRUE] ELSE n

\* client.on('error')
onClientError(n) ==
    LET b == n.botClients
    IN  IF n.edition = "part_004" \/ b = 0 THEN n
        ELSE IF n.bots[b].manuallyStopped THEN deleteEntry(n)
        ELSE IF ~n.bots[b].reconnecting
        THEN reconnectBot(deleteEntry([n EXCEPT !.bots[b].reconnecting = TRUE]))
        ELSE n

\* client.on('close'), run for the close event of client c
onClientClose(n, c) ==
    LET b == n.botClients
        gone == [n EXCEPT !.bots[c].status = "gone"]
    IN  IF b = 0 THEN gone
        ELSE IF n.bots[b].manuallyStopped THEN deleteEntry(gone)
        ELSE IF n.edition /= "part_004" /\ n.bots[b].reconnecting THEN gone
        ELSE reconnectBot(deleteEntry(gone))

\* the clients that can still emit events
Living == { c \in 1..MaxClients : bots[c].status \in {"open", "closing"} }
Open == { c \in 1..MaxClients : bots[c].status = "open" }

\* the node server of one edition is launched
NodeLaunch ==
    /\ edition = "none"
    /\ \E e \in Editions : AssignN([N EXCEPT !.edition = e])

NodeStart ==
    /\ edition \in Editions
    /\ born < MaxClients
    /\ AssignN(startBotLookup([N EXCEPT !.wanted = "start"], "user"))

NodeCreate ==
    /\ born < MaxClients
    /\ \E origin \in {"user", "timer"} :
          starts[origin] > 0 /\ AssignN(startBotCreate(N, origin))

NodeStop == born > 0 /\ AssignN(stopBot(N))

NodeStopResume == \E b \in stops : AssignN(stopBotResume(N, b))

NodeSpawn == Open /= {} /\ AssignN(onClientSpawn(N))

NodeError == Living /= {} /\ AssignN(onClientError(N))

NodeClose == \E c \in Living : AssignN(onClientClose(N, c))

NodeReconnectTimer ==
    /\ nodeTimers > 0
    /\ born < MaxClients
    /\ AssignN(startBotLookup([N EXCEPT !.timers = @ - 1], "timer"))

NextNode ==
    \/ NodeLaunch
    \/ NodeStart
    \/ NodeCreate
    \/ NodeStop
    \/ NodeStopResume
    \/ NodeSpawn
    \/ NodeError
    \/ NodeClose
    \/ NodeReconnectTimer

SpecNode == Init /\ [][NextNode]_vars

\* C39: at most one transport client exists per bot id: of the clients
\* created for the bot id, at most one is open at any time.
C39_OneClientPerBot == Cardinality(Open) <= 1

\* this step creates the client of an automatic reconnect
ReconnectCreates == starts'.timer < starts.timer

\* C40: a stop command prevents any later automatic reconnect until the bot
\* is started again: while stop is the last command carried out, no
\* callback of reconnectBot creates a client.
C40_StopPreventsReconnect == [][wanted = "stop" => ~ReconnectCreates]_vars

=============================================================================
